---- MODULE Spec2Model ----
(***************************************************************************)
(* The free-text ingredient-line parser of Mirai Cook (src/src/utils.py):  *)
(* the unit lexicon, the numeric-literal parser _parse_quantity and the    *)
(* line segmenter parse_ingredient_string with its ordered regular         *)
(* expressions.  A text is a sequence of characters, each a one-character  *)
(* string (the one non-ASCII character, LongS, is named by its code        *)
(* point); Python's None is the empty tuple and a present value v is the   *)
(* one-tuple <<v>>; a float is the reduced fraction                        *)
(* <<numerator, denominator>>.                                             *)
(***************************************************************************)
EXTENDS Integers, Sequences, FiniteSets, TLC

(***************************************************************************)
(* Bounds of the checked instance.                                         *)
(***************************************************************************)
MaxWords == 3       \* words joined by single blanks into an input line
MaxQtyChars == 4    \* characters of a generated numeric fragment
NumCalls == 2       \* concurrent invocations of parse_ingredient_string

None == <<>>
Some(v) == <<v>>

\* a local name: F applied to the value v, which is computed once
With(v, F(_)) == F(v)


(* Characters and the str methods the parser uses.                         *)

LowerLetters ==
  <<"a", "b", "c", "d", "e", "f", "g", "h", "i", "j", "k", "l", "m",
    "n", "o", "p", "q", "r", "s", "t", "u", "v", "w", "x", "y", "z">>
UpperLetters ==
  <<"A", "B", "C", "D", "E", "F", "G", "H", "I", "J", "K", "L", "M",
    "N", "O", "P", "Q", "R", "S", "T", "U", "V", "W", "X", "Y", "Z">>

Digit == {"0", "1", "2", "3", "4", "5", "6", "7", "8", "9"}
Whitespace == {" ", "\t", "\n", "\r", "\f"}

\* LATIN SMALL LETTER LONG S (U+017F), named by its code point: str.lower()
\* leaves it alone, re.IGNORECASE takes it for "s" and "S"
LongS == "U+017F"

LowerChar(c) ==
  IF \E k \in 1..26 : UpperLetters[k] = c
    THEN LowerLetters[CHOOSE k \in 1..26 : UpperLetters[k] = c]
    ELSE c

lower(s) == [k \in 1..Len(s) |-> LowerChar(s[k])]

\* str.lstrip(): what strip would be if it left the trailing whitespace
strip_left(s) ==
  LET keep == {k \in 1..Len(s) : s[k] \notin Whitespace}
  IN  IF keep = {} THEN <<>>
      ELSE SubSeq(s, CHOOSE k \in keep : \A j \in keep : k <= j, Len(s))

\* str.strip(): drop leading and trailing whitespace
strip(s) ==
  LET keep == {k \in 1..Len(s) : s[k] \notin Whitespace}
  IN  IF keep = {} THEN <<>>
      ELSE SubSeq(s, CHOOSE k \in keep : \A j \in keep : k <= j,
                     CHOOSE k \in keep : \A j \in keep : j <= k)

\* str.rstrip('.'): drop every trailing dot
rstrip_dot(s) ==
  LET keep == {k \in 1..Len(s) : s[k] # "."}
  IN  IF keep = {} THEN <<>>
      ELSE SubSeq(s, 1, CHOOSE k \in keep : \A j \in keep : j <= k)

\* str.replace(',', '.')
replace_comma(s) == [k \in 1..Len(s) |-> IF s[k] = "," THEN "." ELSE s[k]]

\* str.split(sep): the pieces between the occurrences of the character sep
split(s, sep) ==
  LET cuts == {k \in 1..Len(s) : s[k] = sep}
      lo(k) == IF \E j \in cuts : j < k
                 THEN 1 + CHOOSE j \in cuts : j < k /\ \A m \in cuts : m < k => m <= j
                 ELSE 1
      ends == cuts \cup {Len(s) + 1}
      nth(n) == CHOOSE k \in ends : Cardinality({j \in ends : j < k}) = n - 1
  IN  [n \in 1..Cardinality(ends) |-> SubSeq(s, lo(nth(n)), nth(n) - 1)]

\* str.split(' ', 1): at most one cut, at the first blank
split_blank_once(s) ==
  LET cuts == {k \in 1..Len(s) : s[k] = " "}
  IN  IF cuts = {} THEN <<s>>
      ELSE LET c == CHOOSE k \in cuts : \A j \in cuts : k <= j
           IN  <<SubSeq(s, 1, c - 1), SubSeq(s, c + 1, Len(s))>>


(* src/src/units.py                                                        *)

COMMON_UNITS == <<
    <<"g">>,
    <<"g", "r">>,
    <<"g", "r", "a", "m", "m", "o">>,
    <<"g", "r", "a", "m", "m", "i">>,
    <<"e", "t", "t", "o">>,
    <<"e", "t", "t", "i">>,
    <<"h", "g">>,
    <<"c", "h", "i", "l", "o", "g", "r", "a", "m", "m", "o">>,
    <<"c", "h", "i", "l", "o", "g", "r", "a", "m", "m", "i">>,
    <<"c", "h", "i", "l", "o">>,
    <<"c", "h", "i", "l", "i">>,
    <<"k", "g">>,
    <<"m", "l">>,
    <<"m", "i", "l", "l", "i", "l", "i", "t", "r", "o">>,
    <<"m", "i", "l", "l", "i", "l", "i", "t", "r", "i">>,
    <<"c", "l">>,
    <<"c", "e", "n", "t", "i", "l", "i", "t", "r", "o">>,
    <<"c", "e", "n", "t", "i", "l", "i", "t", "r", "i">>,
    <<"d", "l">>,
    <<"d", "e", "c", "i", "l", "i", "t", "r", "o">>,
    <<"d", "e", "c", "i", "l", "i", "t", "r", "i">>,
    <<"l">>,
    <<"l", "t">>,
    <<"l", "i", "t", "r", "o">>,
    <<"l", "i", "t", "r", "i">>,
    <<"p", "z">>,
    <<"p", "e", "z", "z", "o">>,
    <<"p", "e", "z", "z", "i">>,
    <<"c", "o", "n", "f", "e", "z", "i", "o", "n", "e">>,
    <<"c", "o", "n", "f", "e", "z", "i", "o", "n", "i">>,
    <<"s", "c", "a", "t", "o", "l", "a">>,
    <<"s", "c", "a", "t", "o", "l", "e">>,
    <<"l", "a", "t", "t", "i", "n", "a">>,
    <<"l", "a", "t", "t", "i", "n", "e">>,
    <<"c", "u", "c", "c", "h", "i", "a", "i", "o">>,
    <<"c", "u", "c", "c", "h", "i", "a", "i">>,
    <<"c", "u", "c", "c", "h", "i", "a", "i", "n", "o">>,
    <<"c", "u", "c", "c", "h", "i", "a", "i", "n", "i">>,
    <<"b", "i", "c", "c", "h", "i", "e", "r", "e">>,
    <<"b", "i", "c", "c", "h", "i", "e", "r", "i">>,
    <<"f", "e", "t", "t", "a">>,
    <<"f", "e", "t", "t", "e">>,
    <<"s", "p", "i", "c", "c", "h", "i", "o">>,
    <<"s", "p", "i", "c", "c", "h", "i">>,
    <<"r", "a", "m", "e", "t", "t", "o">>,
    <<"r", "a", "m", "e", "t", "t", "i">>,
    <<"m", "a", "z", "z", "e", "t", "t", "o">>,
    <<"m", "a", "z", "z", "e", "t", "t", "i">>,
    <<"g", "a", "m", "b", "o">>,
    <<"g", "a", "m", "b", "i">>,
    <<"c", "e", "s", "p", "o">>,
    <<"c", "e", "s", "p", "i">>,
    <<"p", "i", "z", "z", "i", "c", "o">>,
    <<"q", "b">>,
    <<"q", ".", "b">>,
    <<"q", ".", "b", ".">>,
    <<"b", "u", "s", "t", "a">>,
    <<"b", "u", "s", "t", "e">>,
    <<"f", "o", "g", "l", "i", "a">>,
    <<"f", "o", "g", "l", "i", "e">> >>

\* a membership test that finds nothing in the list
InList_never(x, units) == FALSE

\* x in COMMON_UNITS, for a list value units
InList(x, units) == \E k \in 1..Len(units) : units[k] = x


(* Regular expressions as Python's re module matches them: a pattern is a  *)
(* sequence of nodes, matched left to right with backtracking, the first   *)
(* alternative and the greedy (or lazy) repetition count tried first.      *)

Class(cs) == [neg |-> FALSE, cs |-> cs]
NotClass(cs) == [neg |-> TRUE, cs |-> cs]
ClassD == Class(Digit)               \* \d
ClassS == Class(Whitespace)          \* \s
ClassDot == NotClass({"\n"})         \* .
ClassNotD == NotClass(Digit)         \* [^\d]

Chr(cls) == [t |-> "chr", cls |-> cls, alts |-> <<>>, g |-> ""]
Star(cls) == [t |-> "star", cls |-> cls, alts |-> <<>>, g |-> ""]
Plus(cls) == [t |-> "plus", cls |-> cls, alts |-> <<>>, g |-> ""]
LazyStar(cls) == [t |-> "lazy", cls |-> cls, alts |-> <<>>, g |-> ""]
Alt(alts) == [t |-> "alt", cls |-> Class({}), alts |-> alts, g |-> ""]
Opt(re) == Alt(<<re, <<>>>>)
Open(g) == [t |-> "open", cls |-> Class({}), alts |-> <<>>, g |-> g]
Close(g) == [t |-> "close", cls |-> Class({}), alts |-> <<>>, g |-> g]
Bol == [t |-> "bol", cls |-> Class({}), alts |-> <<>>, g |-> ""]
Eol == [t |-> "eol", cls |-> Class({}), alts |-> <<>>, g |-> ""]
Look(alts) == [t |-> "look", cls |-> Class({}), alts |-> alts, g |-> ""]
Group(g, re) == <<Open(g)>> \o re \o <<Close(g)>>
Lit(s) == [k \in 1..Len(s) |-> Chr(Class({s[k]}))]

OtherCase ==
  [c \in {LowerLetters[k] : k \in 1..26} \cup {UpperLetters[k] : k \in 1..26} |->
     IF \E k \in 1..26 : UpperLetters[k] = c
       THEN LowerLetters[CHOOSE k \in 1..26 : UpperLetters[k] = c]
       ELSE UpperLetters[CHOOSE k \in 1..26 : LowerLetters[k] = c]]

\* does character c belong to the class, under re.IGNORECASE when ic
OtherCases(c) ==
  (IF c \in DOMAIN OtherCase THEN {OtherCase[c]} ELSE {})
    \cup (IF c \in {"s", "S"} THEN {LongS} ELSE {})
    \cup (IF c = LongS THEN {"s", "S"} ELSE {})

InClass(c, cls, ic) ==
  LET hit == \/ c \in cls.cs
             \/ ic /\ OtherCases(c) \cap cls.cs # {}
  IN  hit # cls.neg

NoGroups == [quantity |-> <<>>, unit |-> <<>>, name |-> <<>>, notes |-> <<>>,
             g1 |-> <<>>]
NoMatch == [ok |-> FALSE, end |-> 0, caps |-> NoGroups]

\* the end of the longest run of class characters that starts at i
RunEnd(s, i, cls, ic) ==
  CHOOSE j \in i..(Len(s) + 1) :
    /\ j = Len(s) + 1 \/ ~InClass(s[j], cls, ic)
    /\ \A k \in i..(j - 1) : InClass(s[k], cls, ic)

\* among the attempts <<rank, result>>, the successful one of least or of
\* greatest rank: the one backtracking reaches first
FirstOk(R) ==
  LET S == {p \in R : p[2].ok}
  IN  IF S = {} THEN NoMatch
      ELSE (CHOOSE p \in S : \A q \in S : p[1] <= q[1])[2]
LastOk(R) ==
  LET S == {p \in R : p[2].ok}
  IN  IF S = {} THEN NoMatch
      ELSE (CHOOSE p \in S : \A q \in S : q[1] <= p[1])[2]

\* the first way, in backtracking order, to match pattern re at position i:
\* a greedy repetition settles on the longest run the rest of the pattern
\* accepts, a lazy one on the shortest, an alternation on its first branch
\* that the rest accepts
RECURSIVE Match(_, _, _, _, _)
Match(s, re, i, caps, ic) ==
  IF Len(re) = 0 THEN [ok |-> TRUE, end |-> i, caps |-> caps]
  ELSE
    LET h == Head(re)
        t == Tail(re)
        here == i <= Len(s) /\ InClass(s[i], h.cls, ic)
        rest(from) == {<<k, Match(s, t, k, caps, ic)>> :
                         k \in from..RunEnd(s, i, h.cls, ic)}
    IN  CASE h.t = "chr" ->
               IF here THEN Match(s, t, i + 1, caps, ic) ELSE NoMatch
          [] h.t = "plus" -> LastOk(rest(i + 1))
          [] h.t = "star" -> LastOk(rest(i))
          [] h.t = "lazy" -> FirstOk(rest(i))
          [] h.t = "alt" ->
               FirstOk({<<a, Match(s, h.alts[a] \o t, i, caps, ic)>> :
                          a \in 1..Len(h.alts)})
          [] h.t = "open" ->
               Match(s, t, i, [caps EXCEPT ![h.g] = <<i>>], ic)
          [] h.t = "close" ->
               Match(s, t, i, [caps EXCEPT ![h.g] = <<caps[h.g][1], i>>], ic)
          [] h.t = "bol" ->
               IF i = 1 THEN Match(s, t, i, caps, ic) ELSE NoMatch
          [] h.t = "eol" ->
               IF i = Len(s) + 1 \/ (i = Len(s) /\ s[i] = "\n")
                 THEN Match(s, t, i, caps, ic) ELSE NoMatch
          [] h.t = "look" ->
               IF \E a \in 1..Len(h.alts) :
                    Match(s, h.alts[a], i, caps, ic).ok
                 THEN Match(s, t, i, caps, ic) ELSE NoMatch

\* re.match(regex, s, flags)
re_match(regex, s, ic) == Match(s, regex, 1, NoGroups, ic)

\* re.search(regex, s) from position i on: the match at the leftmost
\* position that has one, with that position in field at
search_from(regex, s, i) ==
  With({p \in {<<k, Match(s, regex, k, NoGroups, FALSE)>> :
                 k \in i..(Len(s) + 1)} : p[2].ok},
       LAMBDA S :
         IF S = {} THEN [at |-> 0, m |-> NoMatch]
         ELSE With(CHOOSE p \in S : \A q \in S : p[1] <= q[1],
                   LAMBDA p : [at |-> p[1], m |-> p[2]]))

re_search(regex, s) == search_from(regex, s, 1).m

\* re.sub(regex, '', s): delete every non-overlapping match, left to right
RECURSIVE SubFrom(_, _, _)
SubFrom(regex, s, i) ==
  With(search_from(regex, s, i),
       LAMBDA f :
         IF f.at = 0 THEN SubSeq(s, i, Len(s))
         ELSE SubSeq(s, i, f.at - 1) \o SubFrom(regex, s, f.m.end))

re_sub_empty(regex, s) == SubFrom(regex, s, 1)

\* match.group(g): None when the group took no part in the match
group(s, m, g) ==
  IF Len(m.caps[g]) < 2 THEN None
  ELSE Some(SubSeq(s, m.caps[g][1], m.caps[g][2] - 1))


(* src/src/utils.py, module level                                          *)

\* UNIT_PATTERN = r'(?:' + '|'.join(re.escape(unit) ...) + r')\.?'
UNIT_PATTERN ==
  <<Alt([k \in 1..Len(COMMON_UNITS) |-> Lit(COMMON_UNITS[k])]),
    Opt(<<Chr(Class({"."}))>>)>>

\* NUMBER_PATTERN = r'(?:\d*[\.,]\d+|\d+\s*\/\s*\d+|\d+\s+\d+\s*\/\s*\d+|\d+)'
NUMBER_PATTERN ==
  <<Alt(<<
      <<Star(ClassD), Chr(Class({".", ","})), Plus(ClassD)>>,
      <<Plus(ClassD), Star(ClassS), Chr(Class({"/"})), Star(ClassS),
        Plus(ClassD)>>,
      <<Plus(ClassD), Plus(ClassS), Plus(ClassD), Star(ClassS),
        Chr(Class({"/"})), Star(ClassS), Plus(ClassD)>>,
      <<Plus(ClassD)>> >>)>>


(* Numbers.  int() and float() accept the unsigned decimal forms the       *)
(* parser can hand them; an int is kept as its digit string so that its    *)
(* size is known without computing it.                                     *)

DigitChars == <<"0", "1", "2", "3", "4", "5", "6", "7", "8", "9">>
DigitVal(c) == (CHOOSE n \in 1..10 : DigitChars[n] = c) - 1

AllDigits(s) == Len(s) > 0 /\ \A k \in 1..Len(s) : s[k] \in Digit

RECURSIVE IntVal(_)
IntVal(s) ==
  IF Len(s) = 0 THEN 0
  ELSE 10 * IntVal(SubSeq(s, 1, Len(s) - 1)) + DigitVal(s[Len(s)])

\* decimal digits of the value: the length without leading zeros
NumDigits(s) ==
  LET nz == {k \in 1..Len(s) : s[k] # "0"}
  IN  IF nz = {} THEN 0
      ELSE Len(s) + 1 - CHOOSE k \in nz : \A j \in nz : k <= j

RECURSIVE Pow10(_)
Pow10(n) == IF n = 0 THEN 1 ELSE 10 * Pow10(n - 1)

RECURSIVE GCD(_, _)
GCD(a, b) == IF b = 0 THEN a ELSE GCD(b, a % b)

Frac(n, d) == LET g == GCD(n, d) IN <<n \div g, d \div g>>

\* the largest double is 1.797...e308: an int of more than 309 decimal
\* digits does not convert, and neither does a quotient that large
FloatMaxDigits == 309

Ok(v) == [exc |-> "", val |-> v]
Exc(e) == [exc |-> e, val |-> None]

\* int(s): the digit string, or ValueError
PyInt(s) ==
  With(strip(s),
       LAMBDA b : IF AllDigits(b) THEN Ok(Some(b)) ELSE Exc("ValueError"))

\* float(s): the value, or ValueError
PyFloat(s) ==
  With(strip(s), LAMBDA b :
    With(split(b, "."), LAMBDA parts :
      IF Len(parts) = 1 /\ AllDigits(b)
        THEN Ok(Some(Frac(IntVal(b), 1)))
      ELSE IF /\ Len(parts) = 2
              /\ \A k \in 1..Len(b) : b[k] \in Digit \cup {"."}
              /\ Len(parts[1]) + Len(parts[2]) > 0
        THEN Ok(Some(Frac(IntVal(parts[1] \o parts[2]),
                          Pow10(Len(parts[2])))))
      ELSE Exc("ValueError")))

\* num, den = map(int, pieces): the two digit strings, or ValueError
int_pair(pieces) ==
  IF Len(pieces) # 2 THEN Exc("ValueError")
  ELSE With(PyInt(pieces[1]), LAMBDA a :
         With(PyInt(pieces[2]), LAMBDA b :
           IF a.exc # "" \/ b.exc # "" THEN Exc("ValueError")
           ELSE Ok(Some(<<a.val[1], b.val[1]>>))))

\* whole + (num / den) with den nonzero (whole is "0" for a plain num / den):
\* the quotient or the sum may be too large for a float
true_div(whole, num, den) ==
  IF \/ NumDigits(num) - NumDigits(den) > FloatMaxDigits
     \/ NumDigits(whole) > FloatMaxDigits
    THEN Exc("OverflowError")
    ELSE Ok(Some(Frac(IntVal(whole) * IntVal(den) + IntVal(num), IntVal(den))))

\* lines 206-210 and 212-215, given int(parts[0]) and the pair num, den
fraction_value(whole, pair) ==
  IF whole.exc # "" THEN Exc(whole.exc)
  ELSE IF pair.exc # "" THEN Exc(pair.exc)
  ELSE IF NumDigits(pair.val[1][2]) = 0 THEN Ok(None)
  ELSE true_div(whole.val[1], pair.val[1][1], pair.val[1][2])

\* the body of the try block of _parse_quantity
quantity_try(q) ==
  IF \A k \in 1..Len(q) : q[k] # "/" THEN PyFloat(q)
  ELSE IF \E k \in 1..Len(q) : q[k] = " "
    THEN With(split_blank_once(q), LAMBDA parts :
           fraction_value(PyInt(parts[1]), int_pair(split(parts[2], "/"))))
  ELSE fraction_value(Ok(Some(<<"0">>)), int_pair(split(q, "/")))

\* an except clause that lets ValueError through
Caught_narrow == {"ZeroDivisionError", "IndexError"}

\* except (ValueError, ZeroDivisionError, IndexError)
Caught == {"ValueError", "ZeroDivisionError", "IndexError"}

\* _parse_quantity(qty_str): the value, None, or an exception that escapes
parse_quantity(qty_str) ==
  With(quantity_try(replace_comma(strip(qty_str))),
       LAMBDA r : IF r.exc \in Caught THEN Ok(None) ELSE r)


(* parse_ingredient_string: the processors.  Each takes the record built   *)
(* so far and the match, and answers "return" with the new record, "none"  *)
(* (the guard rejected the match) or "raise".                              *)

\* parsed = {"quantity": None, ..., "original": original_line}
default_parsed(original_line) ==
  [quantity |-> None, unit |-> None, name |-> None, notes |-> None,
   original |-> original_line]

\* match.group("unit").strip().rstrip('.').lower(), then 'q.b.' -> 'qb'
unit_of(text) ==
  LET u == lower(rstrip_dot(strip(text)))
  IN  IF u = <<"q", ".", "b", ".">> THEN <<"q", "b">> ELSE u

Returned(parsed) == [ret |-> "return", parsed |-> parsed]
Raised(parsed) == [ret |-> "raise", parsed |-> parsed]
Rejected(parsed) == [ret |-> "none", parsed |-> parsed]

process_number_unit_name(parsed, s, m) ==
  With(parse_quantity(group(s, m, "quantity")[1]), LAMBDA q :
    IF q.exc # "" THEN Raised(parsed)
    ELSE Returned([parsed EXCEPT
           !.quantity = q.val,
           !.unit = Some(unit_of(group(s, m, "unit")[1])),
           !.name = Some(strip(group(s, m, "name")[1]))]))

process_unit_quantity_name(parsed, s, m) ==
  With(parse_quantity(group(s, m, "quantity")[1]), LAMBDA q :
    IF q.exc # "" THEN Raised(parsed)
    ELSE Returned([parsed EXCEPT
           !.unit = Some(unit_of(group(s, m, "unit")[1])),
           !.quantity = q.val,
           !.name = Some(strip(group(s, m, "name")[1]))]))

process_number_name(parsed, s, m) ==
  With(parse_quantity(group(s, m, "quantity")[1]), LAMBDA q :
    IF q.exc # "" THEN Raised(parsed)
    ELSE Returned([parsed EXCEPT
           !.quantity = q.val,
           !.unit = None,
           !.name = Some(strip(group(s, m, "name")[1]))]))

\* the trailing text replaces whatever notes there were
join_notes_overwrite(notes, remaining_text) ==
  IF remaining_text # <<>> THEN Some(remaining_text) ELSE notes

\* lines 108-111: the trailing text becomes the notes or is appended to them
join_notes(notes, remaining_text) ==
  IF remaining_text # <<>> /\ notes = None THEN Some(remaining_text)
  ELSE IF remaining_text # <<>> /\ notes # None
    THEN Some(notes[1] \o <<",", " ">> \o remaining_text)
  ELSE notes

\* the processor if it filled the record before looking at the name
process_name_number_unit_notes_writes_first(parsed, s, m, units) ==
  With(strip(group(s, m, "name")[1]), LAMBDA potential_name :
    With(parse_quantity(group(s, m, "quantity")[1]), LAMBDA potential_qty :
      With(group(s, m, "unit"), LAMBDA potential_unit :
        IF potential_qty.exc # "" THEN Raised(parsed)
        ELSE With([parsed EXCEPT
                     !.name = Some(potential_name),
                     !.quantity = potential_qty.val,
                     !.unit = IF potential_unit # None
                                THEN Some(unit_of(potential_unit[1]))
                                ELSE None,
                     !.notes = join_notes(parsed.notes,
                                          strip(group(s, m, "notes")[1]))],
                  LAMBDA written :
               IF ~InList(lower(potential_name), units)
                 THEN Returned(written)
                 ELSE Rejected(written)))))

process_name_number_unit_notes(parsed, s, m, units) ==
  With(strip(group(s, m, "name")[1]), LAMBDA potential_name :
    With(parse_quantity(group(s, m, "quantity")[1]), LAMBDA potential_qty :
      With(group(s, m, "unit"), LAMBDA potential_unit :
        IF potential_qty.exc # "" THEN Raised(parsed)
        ELSE IF ~InList(lower(potential_name), units)
          THEN Returned([parsed EXCEPT
                 !.name = Some(potential_name),
                 !.quantity = potential_qty.val,
                 !.unit = IF potential_unit # None
                            THEN Some(unit_of(potential_unit[1])) ELSE None,
                 !.notes = join_notes(parsed.notes,
                                      strip(group(s, m, "notes")[1]))])
          ELSE Rejected(parsed))))

process_name_number(parsed, s, m, units, notes_match) ==
  With(strip(group(s, m, "name")[1]), LAMBDA potential_name :
    IF ~InList(lower(potential_name), units)
      THEN With(parse_quantity(group(s, m, "quantity")[1]), LAMBDA q :
             IF q.exc # "" THEN Raised(parsed)
             ELSE Returned([parsed EXCEPT
                    !.name = Some(potential_name),
                    !.quantity = q.val,
                    !.unit = None,
                    !.notes = IF parsed.notes = None /\ notes_match # None
                                THEN Some(strip(notes_match[1]))
                                ELSE parsed.notes]))
      ELSE Rejected(parsed))

process_unit_name(parsed, s, m) ==
  Returned([parsed EXCEPT
    !.quantity = None,
    !.unit = Some(unit_of(group(s, m, "unit")[1])),
    !.name = Some(strip(group(s, m, "name")[1]))])

\* the entries of the list patterns: name, regex, flags (re.IGNORECASE or
\* 0) and processor
pat_number_unit_name ==
  [name |-> "Number Unit Name",
   regex |-> <<Bol, Star(ClassS)>> \o Group("quantity", NUMBER_PATTERN)
               \o <<Star(ClassS)>> \o Group("unit", UNIT_PATTERN)
               \o <<Plus(ClassS)>> \o Group("name", <<Star(ClassDot)>>)
               \o <<Eol>>,
   ic |-> TRUE,
   processor |-> "process_number_unit_name"]

pat_unit_quantity_name ==
  [name |-> "Unit Quantity Name",
   regex |-> <<Bol, Star(ClassS)>> \o Group("unit", UNIT_PATTERN)
               \o <<Star(ClassS)>> \o Group("quantity", NUMBER_PATTERN)
               \o <<Plus(ClassS)>> \o Group("name", <<Star(ClassDot)>>)
               \o <<Eol>>,
   ic |-> TRUE,
   processor |-> "process_unit_quantity_name"]

pat_number_name ==
  [name |-> "Number Name (No recognized unit found after number)",
   regex |-> <<Bol, Star(ClassS)>> \o Group("quantity", NUMBER_PATTERN)
               \o <<Plus(ClassS)>>
               \o Group("name", <<Chr(ClassNotD), Star(ClassDot)>>)
               \o <<Eol>>,
   ic |-> FALSE,
   processor |-> "process_number_name"]

pat_name_number_unit_notes ==
  [name |-> "Name[,] Number [Unit] [Notes]",
   regex |-> <<Bol>> \o Group("name", <<LazyStar(ClassDot)>>)
               \o <<Opt(<<Chr(Class({","}))>>), Plus(ClassS)>>
               \o Group("quantity", NUMBER_PATTERN)
               \o <<Star(ClassS), Opt(Group("unit", UNIT_PATTERN)),
                    Star(ClassS)>>
               \o Group("notes", <<Star(ClassDot)>>)
               \o <<Eol>>,
   ic |-> TRUE,
   processor |-> "process_name_number_unit_notes"]

pat_name_number ==
  [name |-> "Name Number (No Unit after number)",
   regex |-> <<Bol>> \o Group("name", <<LazyStar(ClassDot)>>)
               \o <<Plus(ClassS)>> \o Group("quantity", NUMBER_PATTERN)
               \o <<Star(ClassS), Eol>>,
   ic |-> FALSE,
   processor |-> "process_name_number"]

pat_unit_name ==
  [name |-> "Unit Name (No Number)",
   regex |-> <<Bol, Star(ClassS)>> \o Group("unit", UNIT_PATTERN)
               \o <<Plus(ClassS),
                    Opt(Lit(<<"o", "f">>) \o <<Plus(ClassS)>>)>>
               \o Group("name", <<Star(ClassDot)>>)
               \o <<Eol>>,
   ic |-> TRUE,
   processor |-> "process_unit_name"]

\* the list with "Number Name" moved in front of "Number Unit Name"
patterns_swapped ==
  <<pat_number_name, pat_unit_quantity_name, pat_number_unit_name,
    pat_name_number_unit_notes, pat_name_number, pat_unit_name>>

\* patterns = [...], in the order of the source
patterns ==
  <<pat_number_unit_name, pat_unit_quantity_name, pat_number_name,
    pat_name_number_unit_notes, pat_name_number, pat_unit_name>>

\* pat["processor"](match)
run_processor(pat, parsed, s, m, units, notes_match) ==
  CASE pat.processor = "process_number_unit_name" ->
         process_number_unit_name(parsed, s, m)
    [] pat.processor = "process_unit_quantity_name" ->
         process_unit_quantity_name(parsed, s, m)
    [] pat.processor = "process_number_name" ->
         process_number_name(parsed, s, m)
    [] pat.processor = "process_name_number_unit_notes" ->
         process_name_number_unit_notes(parsed, s, m, units)
    [] pat.processor = "process_name_number" ->
         process_name_number(parsed, s, m, units, notes_match)
    [] pat.processor = "process_unit_name" ->
         process_unit_name(parsed, s, m)


(* parse_ingredient_string, one invocation.  A frame holds its locals and  *)
(* its position: "call" on entry, "loop" before an iteration of the        *)
(* pattern loop, "fallback" after the loop, "done" once it has returned    *)
(* parsed, "raised" once an exception left it.  tried lists the patterns   *)
(* handed to re.match so far, by name, and via names what produced the     *)
(* record: a pattern, "Fallback", or "" for the early return.              *)

PAREN == <<Chr(Class({"("})), Open("g1"), LazyStar(ClassDot), Close("g1"),
           Chr(Class({")"}))>>

new_frame(x) ==
  [pc |-> "call", arg |-> x, line |-> x, notes_match |-> None,
   parsed |-> default_parsed(<<>>), idx |-> 1, tried |-> <<>>, via |-> ""]

\* an entry without the early return for an empty line
enter_always_loops(f) ==
  [f EXCEPT !.pc = "loop",
            !.parsed = default_parsed(strip(f.arg)),
            !.line = strip(f.arg)]

\* lines 46-66: the default record, the early return, the parenthetical
enter(f) ==
  With(strip(f.arg), LAMBDA original_line :
    With(re_search(PAREN, f.arg), LAMBDA notes_match :
      IF original_line = <<>>
        THEN [f EXCEPT !.pc = "done",
                       !.parsed = default_parsed(original_line)]
      ELSE IF notes_match.ok
        THEN [f EXCEPT
               !.pc = "loop",
               !.notes_match = group(f.arg, notes_match, "g1"),
               !.parsed = [default_parsed(original_line) EXCEPT
                  !.notes = Some(strip(group(f.arg, notes_match, "g1")[1]))],
               !.line = strip(re_sub_empty(PAREN, f.arg))]
        ELSE [f EXCEPT !.pc = "loop",
                       !.parsed = default_parsed(original_line),
                       !.line = strip(original_line)]))

\* the loop goes on to the next pattern, or ends
advance(f) ==
  [f EXCEPT !.tried = Append(f.tried, patterns[f.idx].name),
            !.idx = f.idx + 1,
            !.pc = IF f.idx = Len(patterns) THEN "fallback" ELSE "loop"]

\* lines 180-186: one iteration of "for pat in patterns"; parsed is the one
\* dict the processors write to, so what a processor wrote before it
\* answered None stays
try_pattern(f, units) ==
  With(re_match(patterns[f.idx].regex, f.line, patterns[f.idx].ic),
       LAMBDA match :
    IF ~match.ok THEN advance(f)
    ELSE With(run_processor(patterns[f.idx], f.parsed, f.line, match, units,
                            f.notes_match),
              LAMBDA result :
           IF result.ret = "raise"
             THEN [f EXCEPT !.tried = Append(f.tried, patterns[f.idx].name),
                            !.pc = "raised"]
           ELSE IF result.ret = "return"
             THEN [f EXCEPT !.tried = Append(f.tried, patterns[f.idx].name),
                            !.pc = "done", !.parsed = result.parsed,
                            !.via = patterns[f.idx].name]
           ELSE advance([f EXCEPT !.parsed = result.parsed])))

\* a fallback that stores the line as it was given, parenthetical included
fallback_whole_input(f) ==
  [f EXCEPT
    !.pc = "done",
    !.via = "Fallback",
    !.parsed = [f.parsed EXCEPT !.name = Some(f.parsed.original)]]

\* lines 188-195
fallback(f) ==
  [f EXCEPT
    !.pc = "done",
    !.via = "Fallback",
    !.parsed = [f.parsed EXCEPT
       !.name = Some(f.line),
       !.notes = IF f.parsed.notes = None /\ f.notes_match # None
                   THEN Some(strip(f.notes_match[1]))
                   ELSE f.parsed.notes]]

\* one step of an invocation
step(f, units) ==
  CASE f.pc = "call" -> enter(f)
    [] f.pc = "loop" -> try_pattern(f, units)
    [] f.pc = "fallback" -> fallback(f)
    [] OTHER -> f

\* the invocation run to its end, alone
RECURSIVE run(_, _)
run(f, units) ==
  IF f.pc \in {"done", "raised", "idle"} THEN f ELSE run(step(f, units), units)

parse_ingredient_string(x) == run(new_frame(x), COMMON_UNITS)

(***************************************************************************)
(* Inputs of the checked instance.  A generated line is up to MaxWords     *)
(* words joined by single blanks (an empty word gives leading, trailing    *)
(* and doubled blanks); Corpus adds the lines of the documentation and of  *)
(* src/src/test_data.py.  Runs of digits are short, except for the one     *)
(* numerator that is larger than any float.                                *)
(***************************************************************************)
Words == {
  <<>>,
  <<"1">>,
  <<"1", "/", "2">>,
  <<"1", "/", "0">>,
  <<"g">>,
  <<"Q", ".", "B", ".">>,
  <<"a">>,
  <<"(", "b", ")">>,
  <<",">> }

Corpus == {
  <<"(", "f", "o", "o", ")">>,
  <<",", " ", "1", "0", "0", " ", "g">>,
  <<" ", "a", " ">>,
  <<"1", "/", "0", " ", "k", "g", " ", "f", "a", "r", "i", "n", "a">>,
  <<"S", "a", "l", "e", " ", "q", ".", "b", ".">>,
  <<"q", ".", "b", ".", " ", "s", "a", "l", "e">>,
  <<"1", " ", "q", ".", "b", " ", "s", "a", "l", "e">>,
  <<"1", " ", "q", "b", " ", "s", "a", "l", "e">>,
  <<"s", "a", "l", "e", " ", "1", " ", "q", ".", "b", ".">>,
  <<"g", " ", "1", "0", "0", " ", "f", "a", "r", "i", "n", "a">>,
  <<"1", "0", "0", " ", "g", " ", "f", "a", "r", "i", "n", "a">>,
  <<"1", "0", "0", " ", "g">>,
  <<"g", " ", "1", "0", "0">>,
  <<"F", "a", "r", "i", "n", "a", " ", "0", "0", " ", "1", "0", "0", " ", "g">>,
  <<"L", "a", "t", "t", "u", "g", "a", ",", " ", "1", " ", "c", "e", "s", "p", "o">>,
  <<"U", "n", " ", "p", "i", "z", "z", "i", "c", "o", " ", "d", "i", " ",
    "n", "o", "c", "e", " ", "m", "o", "s", "c", "a", "t", "a">>,
  <<"p", "i", "z", "z", "i", "c", "o", " ", "d", "i", " ",
    "n", "o", "c", "e", " ", "m", "o", "s", "c", "a", "t", "a">>,
  <<"1", " ", "l", "i", "m", "o", "n", "e", " ",
    "(", "s", "c", "o", "r", "z", "a", " ", "e", " ", "s", "u", "c", "c", "o", ")">>,
  <<"1", "0", "0", "g", " ", "b", "u", "r", "r", "o", ",", " ",
    "a", "m", "m", "o", "r", "b", "i", "d", "i", "t", "o">>,
  <<"S", "p", "e", "c", "k", " ", "t", "a", "g", "l", "i", "a", "t", "o", " ",
    "g", "r", "o", "s", "s", "o", ",", " ", "1", "0", "0", " ", "g">>,
  <<"F", "a", "r", "i", "n", "a", " ", "1", "0", "0", " ", "g", "r", "a", "m", "m", "i">>,
  <<"a", " ", "(", "b", ")", " ", "1", " ", "g", " ", "c">>,
  <<"1", " ", "/", " ", "2", " ", "g", " ", "a">>,
  <<"1", " ", "K", "g", ".", " ", "f", "a", "r", "i", "n", "a">>,
  <<"1", ",", "5", " ", "g", " ", "a">>,
  <<"1", ".", "5", " ", "a">>,
  <<"a", ",", " ", "1", ",", "5", " ", "g">>,
  <<"1", " ", LongS, "c", "a", "t", "o", "l", "a", " ", "x">>,
  <<LongS, "c", "a", "t", "o", "l", "a", " ", "1">>,
  <<"1", " ", "g", " ", "1", "/", "2", " ", "a">>,
  <<"1", "0", "0", " ", "g", " ", "0", "0", " ", "f", "a", "r", "i", "n", "a">>,
  <<"F", "a", "r", "i", "n", "a", ",", " ", "1", "0", "0", " ",
    "g", "r", "a", "m", "m", "i">>,
  <<"p", "i", "z", "z", "i", "c", "o", " ", "o", "f", " ", "s", "a", "l", "e">> }

\* a numeral of FloatMaxDigits + 2 digits: 10 ^ (FloatMaxDigits + 1)
HugeInt == [k \in 1..(FloatMaxDigits + 2) |-> IF k = 1 THEN "1" ELSE "0"]
HugeLine == HugeInt \o <<"/", "1", " ", "g", " ", "a">>

RECURSIVE join(_)
join(ws) ==
  IF Len(ws) = 0 THEN <<>>
  ELSE IF Len(ws) = 1 THEN ws[1]
  ELSE ws[1] \o <<" ">> \o join(Tail(ws))

WordLines == {join(ws) : ws \in UNION {[1..n -> Words] : n \in 0..MaxWords}}

Lines == WordLines \cup Corpus \cup {HugeLine}

QtyChars == {"0", "1", "2", "/", " ", ",", ".", "x"}
QtyLiterals == {
  <<"1", " ", "1", "/", "2">>,
  <<"2", " ", "1", "/", "0">>,
  <<"1", " ", "/", " ", "2">>,
  <<"1", "0", " ", "2", "/", "1", "0">>,
  HugeInt \o <<"/", "1">> }
QtyInputs ==
  UNION {[1..n -> QtyChars] : n \in 0..MaxQtyChars} \cup QtyLiterals

ConcLines == {
  <<"1", " ", "g", " ", "a">>,
  <<"g", " ", "1">>,
  <<"a", " ", "(", "b", ")", " ", "1", " ", "g", " ", "c">>,
  <<"(", "b", ")">>,
  <<"a">> }

(***************************************************************************)
(* The state: the list COMMON_UNITS as the running program holds it, the   *)
(* frames of the invocations of parse_ingredient_string, one invocation of *)
(* _parse_quantity on its own, and one invocation of the import page's     *)
(* process_and_store_extracted_data.                                       *)
(***************************************************************************)
VARIABLES lexicon, calls, qty, block, doc, qu, ner, page

vars == <<lexicon, calls, qty, block, doc, qu, ner, page>>

Calls == 1..NumCalls

idle_frame == [new_frame(<<>>) EXCEPT !.pc = "idle"]
idle_qty == [pc |-> "idle", arg |-> <<>>, exc |-> "", val |-> None]
idle_block ==
  [pc |-> "idle", kind |-> "list", lines |-> <<>>, text |-> <<>>,
   raw_ingredients_list |-> <<>>, i |-> 1, parsed_ingredients_list |-> <<>>,
   stored |-> None]
idle_doc ==
  [pc |-> "idle", ingredients_text |-> <<>>, selected_model_id |-> <<>>,
   exc |-> "", val |-> <<>>]

idle_qu == [pc |-> "idle", quantity_text |-> <<>>, exc |-> "", val |-> None]

idle_ner ==
  [pc |-> "idle", line |-> <<>>, service |-> "ok", entities |-> <<>>,
   parsed |-> [quantity |-> None, unit |-> None, name |-> None,
               notes |-> None, original |-> <<>>]]

idle_page ==
  [pc |-> "idle", pending_similarity_check |-> None,
   confirmed_ingredient_map |-> {}, ingredients_container |-> <<>>,
   manual_ingredients_df |-> <<>>,
   run |-> [op |-> "none", form_disabled |-> FALSE, outcome |-> "none",
            rows |-> <<>>, saved |-> <<>>, known |-> {}],
   chosen |-> {}]

\* locals if the record under construction were one object shared by all
\* invocations instead of a dict built by each
locals_shared(cs, p) == [cs[p] EXCEPT !.parsed = cs[1].parsed]

\* the locals an invocation works on: its own (parsed is a fresh dict of
\* each call, lines 50-56)
locals(cs, p) == cs[p]

InitLine ==
  /\ lexicon = COMMON_UNITS
  /\ page = idle_page
  /\ ner = idle_ner
  /\ qu = idle_qu
  /\ \E x \in Lines :
       calls = [p \in Calls |-> IF p = 1 THEN new_frame(x) ELSE idle_frame]
  /\ qty = idle_qty
  /\ block = idle_block
  /\ doc = idle_doc

InitQty ==
  /\ lexicon = COMMON_UNITS
  /\ page = idle_page
  /\ ner = idle_ner
  /\ qu = idle_qu
  /\ calls = [p \in Calls |-> idle_frame]
  /\ \E q \in QtyInputs : qty = [idle_qty EXCEPT !.pc = "call", !.arg = q]
  /\ block = idle_block
  /\ doc = idle_doc

Init == InitLine \/ InitQty

InitConc ==
  /\ lexicon = COMMON_UNITS
  /\ page = idle_page
  /\ ner = idle_ner
  /\ qu = idle_qu
  /\ \E xs \in [Calls -> ConcLines] : calls = [p \in Calls |-> new_frame(xs[p])]
  /\ qty = idle_qty
  /\ block = idle_block
  /\ doc = idle_doc

Enter ==
  \E p \in Calls :
    /\ calls[p].pc = "call"
    /\ calls' = [calls EXCEPT ![p] = enter(locals(calls, p))]
    /\ UNCHANGED <<lexicon, qty, block, doc, qu, ner, page>>

TryPattern ==
  \E p \in Calls :
    /\ calls[p].pc = "loop"
    /\ calls' = [calls EXCEPT ![p] = try_pattern(locals(calls, p), lexicon)]
    /\ UNCHANGED <<lexicon, qty, block, doc, qu, ner, page>>

Fallback ==
  \E p \in Calls :
    /\ calls[p].pc = "fallback"
    /\ calls' = [calls EXCEPT ![p] = fallback(locals(calls, p))]
    /\ UNCHANGED <<lexicon, qty, block, doc, qu, ner, page>>

ParseQuantity ==
  /\ qty.pc = "call"
  /\ qty' = With(parse_quantity(qty.arg), LAMBDA r :
              [qty EXCEPT !.pc = IF r.exc = "" THEN "done" ELSE "raised",
                          !.exc = r.exc, !.val = r.val])
  /\ UNCHANGED <<lexicon, calls, block, doc, qu, ner, page>>

Next == Enter \/ TryPattern \/ Fallback \/ ParseQuantity

NextCalls == Enter \/ TryPattern \/ Fallback

Spec == Init /\ [][Next]_vars

SpecConc == InitConc /\ [][NextCalls]_vars

(***************************************************************************)
(* The import page: process_and_store_extracted_data turns the ingredients *)
(* of an extracted recipe, a list of lines (scraper) or one text block     *)
(* (document analysis), into the list of parsed records it stores under    *)
(* 'parsed_ingredients'.                                                   *)
(***************************************************************************)
MaxBlockLines == 3  \* lines of an ingredient block

\* the lines a block is made of
BlockLines == {
  <<>>,
  <<" ">>,
  <<"1", " ", "g", " ", "a">>,
  <<" ", "g", " ", "1">>,
  <<"a", " ", "(", "b", ")">> }

\* blocks with a line whose parse raises, in first, middle and last place
RaisingBlocks == {
  <<HugeLine>>,
  <<HugeLine, <<"1", " ", "g", " ", "a">> >>,
  << <<"a">>, HugeLine>>,
  << <<>>, HugeLine, <<" ", "g", " ", "1">> >> }

RECURSIVE join_newline(_)
\* "\n".join(lines)
join_newline(ls) ==
  IF Len(ls) = 0 THEN <<>>
  ELSE IF Len(ls) = 1 THEN ls[1]
  ELSE ls[1] \o <<"\n">> \o join_newline(Tail(ls))

BlockLists ==
  UNION {[1..n -> BlockLines] : n \in 0..MaxBlockLines} \cup RaisingBlocks

\* extracted_data['ingredients'] when it is one text block
BlockTexts == {join_newline(ls) : ls \in BlockLists}

InitBlock ==
  /\ lexicon = COMMON_UNITS
  /\ page = idle_page
  /\ ner = idle_ner
  /\ qu = idle_qu
  /\ calls = [p \in Calls |-> idle_frame]
  /\ qty = idle_qty
  /\ doc = idle_doc
  /\ \/ \E ls \in BlockLists :
          block = [idle_block EXCEPT !.pc = "call", !.kind = "list",
                                     !.lines = ls]
     \/ \E t \in BlockTexts :
          block = [idle_block EXCEPT !.pc = "call", !.kind = "text",
                                     !.text = t]

\* lines 104-113: the raw lines of the input; an empty list goes straight to
\* lines 122-124
SplitBlock ==
  /\ block.pc = "call"
  /\ block' = With(IF block.kind = "list" THEN block.lines
                   ELSE split(strip(block.text), "\n"),
                   LAMBDA raw :
         IF raw # <<>>
           THEN [block EXCEPT !.pc = "loop", !.raw_ingredients_list = raw]
           ELSE [block EXCEPT !.pc = "done", !.raw_ingredients_list = raw,
                              !.stored = Some(<<>>)])
  /\ UNCHANGED <<lexicon, calls, qty, doc, qu, ner, page>>

\* an iteration that puts the new record in front of the list
parse_block_line_prepends(b, units) ==
  With(strip(b.raw_ingredients_list[b.i]), LAMBDA line :
    IF line = <<>> THEN [b EXCEPT !.i = b.i + 1]
    ELSE With(run(new_frame(line), units), LAMBDA f :
      IF f.pc = "raised" THEN [b EXCEPT !.pc = "raised"]
      ELSE [b EXCEPT
             !.i = b.i + 1,
             !.parsed_ingredients_list =
                <<f.parsed>> \o b.parsed_ingredients_list]))

\* lines 116-119: one iteration of "for line in raw_ingredients_list"; an
\* exception of parse_ingredient_string ends the call
parse_block_line(b, units) ==
  With(strip(b.raw_ingredients_list[b.i]), LAMBDA line :
    IF line = <<>> THEN [b EXCEPT !.i = b.i + 1]
    ELSE With(run(new_frame(line), units), LAMBDA f :
      IF f.pc = "raised" THEN [b EXCEPT !.pc = "raised"]
      ELSE [b EXCEPT
             !.i = b.i + 1,
             !.parsed_ingredients_list =
                Append(b.parsed_ingredients_list, f.parsed)]))

ParseLine ==
  /\ block.pc = "loop"
  /\ block.i <= Len(block.raw_ingredients_list)
  /\ block' = parse_block_line(block, lexicon)
  /\ UNCHANGED <<lexicon, calls, qty, doc, qu, ner, page>>

\* line 121: extracted_data['parsed_ingredients'] = parsed_ingredients_list
StoreParsed ==
  /\ block.pc = "loop"
  /\ block.i > Len(block.raw_ingredients_list)
  /\ block' = [block EXCEPT !.pc = "done",
                            !.stored = Some(block.parsed_ingredients_list)]
  /\ UNCHANGED <<lexicon, calls, qty, doc, qu, ner, page>>

NextBlock == SplitBlock \/ ParseLine \/ StoreParsed

SpecBlock == InitBlock /\ [][NextBlock]_vars

(***************************************************************************)
(* src/src/utils.py, parse_doc_intel_ingredients: the ingredients field of *)
(* a scanned recipe, one continuous text, cut into one string per          *)
(* ingredient.  The letters with diacritics of the ranges A-grave..U-uml   *)
(* are named by their code points, as far as the inputs use them.          *)
(***************************************************************************)
UpperAccented == {"U+00C0", "U+00DC"}
LowerAccented == {"U+00E0", "U+00FC"}
DocUpper == Class({UpperLetters[k] : k \in 1..26} \cup UpperAccented)
DocLower == Class({LowerLetters[k] : k \in 1..26} \cup LowerAccented)
NotDocUpper == NotClass(DocUpper.cs)
NotComma == NotClass({","})

\* r'^\s*ingredienti[:,]?\s*', with re.IGNORECASE
INGREDIENTI ==
  <<Bol, Star(ClassS)>>
    \o Lit(<<"i", "n", "g", "r", "e", "d", "i", "e", "n", "t", "i">>)
    \o <<Opt(<<Chr(Class({":", ","}))>>), Star(ClassS)>>

\* lines 295-296: re.sub drops the heading at the start of the text
drop_heading(text) ==
  With(re_match(INGREDIENTI, text, TRUE), LAMBDA m :
    IF m.ok THEN SubSeq(text, m.end, Len(text)) ELSE text)

\* lines 301-302 of the pattern, what follows the name: the optional
\* r'(?:,\s*([^A-ZÀ-Ü]+?))?' and the lookahead r'(?=\s+[A-ZÀ-Ü]|$)'
DOC_TAIL ==
  <<Opt(<<Chr(Class({","})), Star(ClassS), Open("quantity"),
          Chr(NotDocUpper), LazyStar(NotDocUpper), Close("quantity")>>),
    Look(<< <<Plus(ClassS), Chr(DocUpper)>>, <<Eol>> >>)>>

\* line 300 of the pattern, the name r'([A-ZÀ-Ü][^,]*?(?: [a-zà-ü][^,]*)*)'
\* that starts at i; under re.VERBOSE the blank of the pattern is not part of
\* it, so the name is a capital, a lazy run without commas, and greedy
\* groups of a small letter and a run without commas.  Backtracking tries
\* the ends of the name in this order: while the lazy run has met no small
\* letter, the shortest first; from the first small letter on, a greedy
\* group reaches the next comma, so the longest first.  The name ends at the
\* first of them that DOC_TAIL accepts.
doc_match(s, i) ==
  IF i > Len(s) \/ ~InClass(s[i], DocUpper, FALSE) THEN NoMatch
  ELSE
    With(RunEnd(s, i + 1, NotComma, FALSE), LAMBDA comma :
      With({q \in (i + 1)..(comma - 1) : InClass(s[q], DocLower, FALSE)},
           LAMBDA small :
        With(IF small = {} THEN comma + 1
             ELSE CHOOSE q \in small : \A r \in small : q <= r,
             LAMBDA first_small :
          With({e \in (i + 1)..comma :
                  Match(s, DOC_TAIL, e, NoGroups, FALSE).ok},
               LAMBDA ends :
            With({e \in ends : e < first_small}, LAMBDA lazy_ends :
              IF lazy_ends # {}
                THEN With(CHOOSE e \in lazy_ends :
                            \A r \in lazy_ends : e <= r,
                          LAMBDA e :
                       [Match(s, DOC_TAIL, e, NoGroups, FALSE) EXCEPT
                          !.caps.name = <<i, e>>])
              ELSE IF ends # {}
                THEN With(CHOOSE e \in ends : \A r \in ends : r <= e,
                          LAMBDA e :
                       [Match(s, DOC_TAIL, e, NoGroups, FALSE) EXCEPT
                          !.caps.name = <<i, e>>])
              ELSE NoMatch)))))

\* re.findall(pattern, s): the matches from left to right, each search
\* starting where the match before it ended; a group that took no part gives
\* the empty text
RECURSIVE doc_findall(_, _)
doc_findall(s, pos) ==
  With({k \in pos..Len(s) : doc_match(s, k).ok}, LAMBDA starts :
    IF starts = {} THEN <<>>
    ELSE With(doc_match(s, CHOOSE k \in starts : \A r \in starts : k <= r),
              LAMBDA m :
           << [name |-> group(s, m, "name")[1],
               qty_unit |-> IF group(s, m, "quantity") = None THEN <<>>
                            ELSE group(s, m, "quantity")[1]] >>
             \o doc_findall(s, m.end)))

\* lines 305-314: "name, qty unit" or the name alone
doc_item(m) ==
  IF m.qty_unit # <<>> /\ strip(m.qty_unit) # <<>>
    THEN strip(m.name) \o <<",", " ">> \o strip(m.qty_unit)
    ELSE strip(m.name)

\* str.startswith(prefix)
startswith(s, prefix) ==
  Len(prefix) <= Len(s) /\ SubSeq(s, 1, Len(prefix)) = prefix

CUCINA_FACILE ==
  <<"c", "u", "c", "i", "n", "a", "_", "f", "a", "c", "i", "l", "e">>

\* lines 285-317
parse_doc_intel_ingredients(ingredients_text, selected_model_id) ==
  IF startswith(selected_model_id, CUCINA_FACILE)
    THEN With(doc_findall(drop_heading(ingredients_text), 1), LAMBDA matches :
           [exc |-> "",
            val |-> SelectSeq([k \in 1..Len(matches) |-> doc_item(matches[k])],
                              LAMBDA x : x # <<>>)])
    ELSE [exc |-> "NotImplementedError", val |-> <<>>]

\* the items of the expected list of lines 328-343
SampleItems == <<
  <<"R", "i", "s", "o", " ", "C", "a", "r", "n", "a", "r", "o", "l", "i",
    ",", " ", "3", "5", "0", " ", "g">>,
  <<"S", "p", "e", "c", "k", " ", "t", "a", "g", "l", "i", "a", "t", "o",
    " ", "g", "r", "o", "s", "s", "o", ",", " ", "1", "0", "0", " ", "g">>,
  <<"R", "i", "c", "o", "t", "t", "a", " ", "f", "r", "e", "s", "c", "a",
    ",", " ", "6", "0", " ", "g">>,
  <<"G", "h", "e", "r", "i", "g", "l", "i", " ", "d", "i", " ", "n", "o",
    "c", "e", ",", " ", "5", "0", " ", "g">>,
  <<"L", "a", "t", "t", "u", "g", "a", ",", " ", "1", " ", "c", "e", "s",
    "p", "o">>,
  <<"C", "i", "p", "o", "l", "l", "a", ",", " ", "1">>,
  <<"A", "g", "l", "i", "o", ",", " ", "1", " ", "s", "p", "i", "c", "c",
    "h", "i", "o">>,
  <<"P", "a", "r", "m", "i", "g", "i", "a", "n", "o", " ", "g", "r", "a",
    "t", "t", "u", "g", "i", "a", "t", "o">>,
  <<"B", "u", "r", "r", "o", ",", " ", "5", "0", " ", "g">>,
  <<"V", "i", "n", "o", " ", "b", "i", "a", "n", "c", "o", " ", "s", "e",
    "c", "c", "o", ",", " ", "1", "/", "2", " ", "b", "i", "c", "c", "h",
    "i", "e", "r", "e">>,
  <<"B", "r", "o", "d", "o", " ", "v", "e", "g", "e", "t", "a", "l", "e",
    ",", " ", "8", " ", "d", "l", " ", "s", "c", "a", "r", "s", "i">>,
  <<"P", "r", "e", "z", "z", "e", "m", "o", "l", "o", ",", " ", "q", "u",
    "a", "l", "c", "h", "e", " ", "f", "o", "g", "l", "i", "a">>,
  <<"O", "l", "i", "o", " ", "e", "x", "t", "r", "a", "v", "e", "r", "g",
    "i", "n", "e", " ", "d", "'", "o", "l", "i", "v", "a">>,
  <<"S", "a", "l", "e", ",", " ", "p", "e", "p", "e">> >>

\* "ingredienti", the heading the scanned field begins with
Heading == <<"i", "n", "g", "r", "e", "d", "i", "e", "n", "t", "i">>

\* line 327 (and src/src/mock.py, line 11): the ingredients of the sample
\* recipe, the heading and the items in one line
SampleText == Heading \o <<" ">> \o join(SampleItems)

MaxItems == 3       \* ingredients of a generated block

\* ingredients as the scanned field writes them: a name alone, or a name, a
\* comma and a quantity clause
DocItems == {
  <<"A", "b">>,
  <<"A", "b", " ", "c", "d">>,
  <<"E", "f", ",", " ", "1", " ", "g">>,
  <<"G", "h", " ", "i", "j", ",", " ", "k", "l">> }

DocItemLists == UNION {[1..n -> DocItems] : n \in 0..MaxItems}

\* the text of a block: its items in one line, with or without the heading
DocText(items, heading) ==
  IF heading THEN Heading \o <<" ">> \o join(items) ELSE join(items)

DocTexts ==
  {DocText(items, h) : items \in DocItemLists, h \in BOOLEAN}
    \cup {SampleText}

\* selected_model_id
ModelIds == {CUCINA_FACILE, CUCINA_FACILE \o <<"_", "v", "2">>,
             <<"o", "t", "h", "e", "r">>}

InitDoc ==
  /\ lexicon = COMMON_UNITS
  /\ page = idle_page
  /\ ner = idle_ner
  /\ qu = idle_qu
  /\ calls = [p \in Calls |-> idle_frame]
  /\ qty = idle_qty
  /\ block = idle_block
  /\ \E t \in DocTexts : \E id \in ModelIds :
       doc = [idle_doc EXCEPT !.pc = "call", !.ingredients_text = t,
                              !.selected_model_id = id]

ParseDocIntel ==
  /\ doc.pc = "call"
  /\ doc' = With(parse_doc_intel_ingredients(doc.ingredients_text,
                                             doc.selected_model_id),
                 LAMBDA r :
         [doc EXCEPT !.pc = IF r.exc = "" THEN "done" ELSE "raised",
                     !.exc = r.exc, !.val = r.val])
  /\ UNCHANGED <<lexicon, calls, qty, block, qu, ner, page>>

NextDoc == ParseDocIntel

SpecDoc == InitDoc /\ [][NextDoc]_vars

(***************************************************************************)
(* src/src/utils.py, parse_quantity_and_unit: the text of a quantity cut   *)
(* into its value, a string, and its unit.                                 *)
(***************************************************************************)
\* str(n) of a natural number
RECURSIVE IntStr(_)
IntStr(n) ==
  IF n < 10 THEN <<DigitChars[n + 1]>>
  ELSE IntStr(n \div 10) \o <<DigitChars[(n % 10) + 1]>>

\* the decimal places of a fraction whose expansion ends: the digits of
\* r / d, r < d, d a divisor of a power of ten
RECURSIVE DecimalPlaces(_, _)
DecimalPlaces(r, d) ==
  IF r = 0 THEN <<>>
  ELSE <<DigitChars[((10 * r) \div d) + 1]>> \o DecimalPlaces((10 * r) % d, d)

\* str(x) of a float x = n / d whose decimal expansion is short: the digits
\* before the point, the point, the digits after it ("0" when there are
\* none), as repr gives them for such a value
float_str(x) ==
  IntStr(x[1] \div x[2]) \o <<".">>
    \o (IF x[1] % x[2] = 0 THEN <<"0">> ELSE DecimalPlaces(x[1] % x[2], x[2]))

\* r'(?P<value>\d+\/\d+)'
FRACTION_PATTERN ==
  Group("quantity", <<Plus(ClassD), Chr(Class({"/"})), Plus(ClassD)>>)

\* r'(?P<value>\d+([,.\/]?\d*)?)\s*(?P<unit>\D+)'
VALUE_UNIT_PATTERN ==
  Group("quantity",
        <<Plus(ClassD),
          Opt(<<Opt(<<Chr(Class({",", ".", "/"}))>>), Star(ClassD)>>)>>)
    \o <<Star(ClassS)>>
    \o Group("unit", <<Plus(ClassNotD)>>)

\* lines 233-236: numerator / denominator of the fraction, as a string; the
\* division is not guarded
fraction_to_decimal(fraction) ==
  With(split(fraction, "/"), LAMBDA pieces :
    IF NumDigits(pieces[2]) = 0 THEN Exc("ZeroDivisionError")
    ELSE With(true_div(<<"0">>, pieces[1], pieces[2]), LAMBDA q :
      IF q.exc # "" THEN q
      ELSE Ok(Some([value |-> float_str(q.val[1]), unit |-> None]))))

\* lines 232-237: the fraction branch returns the decimal value and no unit
fraction_branch(t, match_fraction) ==
  fraction_to_decimal(group(t, match_fraction, "quantity")[1])

\* lines 222-247: the result is None, or a dict of value and unit
parse_quantity_and_unit(quantity_text) ==
  With(strip(quantity_text), LAMBDA t :
    With(re_match(FRACTION_PATTERN, t, FALSE), LAMBDA match_fraction :
      IF match_fraction.ok THEN fraction_branch(t, match_fraction)
      ELSE With(re_match(VALUE_UNIT_PATTERN, t, FALSE), LAMBDA match :
        IF match.ok
          THEN Ok(Some([value |-> replace_comma(group(t, match, "quantity")[1]),
                        unit |-> Some(strip(group(t, match, "unit")[1]))]))
          ELSE Ok(None))))

\* quantities as texts: integers, decimals with dot or comma, fractions
QuNumbers == {
  <<"1">>, <<"3", "5", "0">>, <<"1", ".", "5">>, <<"1", ",", "5">>,
  <<"0", ",", "2", "5">>, <<"1", "/", "2">>, <<"3", "/", "4">>,
  <<"1", "0", "/", "4">>, <<"4", "/", "2">>, <<"1", "/", "0">>,
  <<"1", " ", "1", "/", "2">>, <<",", "5">>, <<>> }

\* units as texts
QuUnits == {
  <<>>, <<"g">>, <<"d", "l">>, <<"K", "g", ".">>,
  <<"d", "l", " ", "s", "c", "a", "r", "s", "i">> }

QuSeparators == {<<>>, <<" ">>}

\* quantity_text: a number, a separator, a unit, with blanks around; and a
\* fraction too large for a float
QuInputs ==
  {n \o sep \o u : n \in QuNumbers, sep \in QuSeparators, u \in QuUnits}
    \cup {<<" ">> \o n \o <<" ">> \o u \o <<" ">> :
            n \in QuNumbers, u \in QuUnits}
    \cup {HugeInt \o <<"/", "1">>}

InitQu ==
  /\ lexicon = COMMON_UNITS
  /\ page = idle_page
  /\ ner = idle_ner
  /\ calls = [p \in Calls |-> idle_frame]
  /\ qty = idle_qty
  /\ block = idle_block
  /\ doc = idle_doc
  /\ \E x \in QuInputs :
       qu = [idle_qu EXCEPT !.pc = "call", !.quantity_text = x]

ParseQuantityAndUnit ==
  /\ qu.pc = "call"
  /\ qu' = With(parse_quantity_and_unit(qu.quantity_text), LAMBDA r :
         [qu EXCEPT !.pc = IF r.exc = "" THEN "done" ELSE "raised",
                    !.exc = r.exc, !.val = r.val])
  /\ UNCHANGED <<lexicon, calls, qty, block, doc, ner, page>>

NextQu == ParseQuantityAndUnit

SpecQu == InitQu /\ [][NextQu]_vars

(***************************************************************************)
(* src/src/ai_services/language.py, parse_single_ingredient_ner: one       *)
(* ingredient line parsed with the entities the language service           *)
(* recognises in it.  The service is outside the program: its answer (an   *)
(* error, an exception, or a list of entities) is an input of the call.    *)
(***************************************************************************)
MaxEntities == 2    \* entities the service recognises in a line

\* sorted(entities, key=lambda e: e.offset): a stable sort
sorted_by_offset(es) ==
  [k \in 1..Len(es) |->
     es[CHOOSE i \in 1..Len(es) :
          Cardinality({j \in 1..Len(es) :
                         \/ es[j].offset < es[i].offset
                         \/ es[j].offset = es[i].offset /\ j < i}) = k - 1]]

\* str.split(): the maximal runs without whitespace
split_whitespace(s) ==
  With({k \in 1..Len(s) :
          s[k] \notin Whitespace /\ (k = 1 \/ s[k - 1] \in Whitespace)},
       LAMBDA starts :
    [n \in 1..Cardinality(starts) |->
       With(CHOOSE k \in starts :
              Cardinality({j \in starts : j < k}) = n - 1,
            LAMBDA k :
         SubSeq(s, k, RunEnd(s, k, NotClass(Whitespace), FALSE) - 1))])

\* str.replace(old, ""), old not empty: every occurrence cut out, left to
\* right
RECURSIVE remove_all(_, _)
remove_all(s, old) ==
  With({k \in 1..(Len(s) - Len(old) + 1) :
          SubSeq(s, k, k + Len(old) - 1) = old},
       LAMBDA at :
    IF at = {} THEN s
    ELSE With(CHOOSE k \in at : \A j \in at : k <= j, LAMBDA k :
           SubSeq(s, 1, k - 1)
             \o remove_all(SubSeq(s, k + Len(old), Len(s)), old)))

QuantityCategories == {"Quantity", "Dimension"}
NameCategories == {"Product", "Food", "Other", "Skill", "Location", "Person",
                   "Organization", "Event"}

\* lines 119-120: "qty, unit = parse_quantity_and_unit(entity.text)" unpacks
\* what the helper returns: a dict gives its two keys, in the order they were
\* written, None gives a TypeError, and an exception of the helper goes on
unpack_quantity_and_unit(text) ==
  With(parse_quantity_and_unit(text), LAMBDA r :
    IF r.exc # "" THEN Exc(r.exc)
    ELSE IF r.val = None THEN Exc("TypeError")
    ELSE Ok(Some([qty |-> Some(<<"v", "a", "l", "u", "e">>),
                  unit |-> Some(<<"u", "n", "i", "t">>)])))

\* lines 118-127: the first Quantity or Dimension entity that gives a
\* quantity or a unit; found is 0 when there is none
RECURSIVE find_quantity(_, _)
find_quantity(entities, k) ==
  IF k > Len(entities) THEN [exc |-> "", found |-> 0, qty |-> None,
                             unit |-> None]
  ELSE IF entities[k].category \notin QuantityCategories
    THEN find_quantity(entities, k + 1)
  ELSE With(unpack_quantity_and_unit(entities[k].text), LAMBDA r :
    IF r.exc # "" THEN [exc |-> r.exc, found |-> 0, qty |-> None,
                        unit |-> None]
    ELSE IF r.val[1].qty # None \/ r.val[1].unit # None
      THEN [exc |-> "", found |-> k, qty |-> r.val[1].qty,
            unit |-> r.val[1].unit]
    ELSE find_quantity(entities, k + 1))

\* lines 130-136: the texts of the entities that make the name
name_parts(entities, quantity_entity_text) ==
  With(SelectSeq(entities, LAMBDA e :
         /\ ~(/\ quantity_entity_text # None
               /\ quantity_entity_text[1] # <<>>
               /\ e.text = quantity_entity_text[1]
               /\ e.category \in QuantityCategories)
         /\ e.category \in NameCategories),
       LAMBDA es : [k \in 1..Len(es) |-> es[k].text])

\* lines 140-152: the name from the entities, or from the line without the
\* quantity's text, with its blanks normalised
ner_name(parts, line_for_ner, quantity_entity_text, original_line) ==
  With(IF parts # <<>> THEN strip(join(parts))
       ELSE With(IF quantity_entity_text # None
                      /\ quantity_entity_text[1] # <<>>
                   THEN strip(remove_all(line_for_ner,
                                         quantity_entity_text[1]))
                   ELSE line_for_ner,
                 LAMBDA name_fallback :
              IF name_fallback # <<>> THEN name_fallback ELSE original_line),
       LAMBDA name : IF name # <<>> THEN join(split_whitespace(name)) ELSE name)

\* lines 100-156, given the answer of the service
ner_with_entities(parsed, line_for_ner, original_line, service, result) ==
  IF service = "raises" THEN [parsed EXCEPT !.name = Some(original_line)]
  ELSE IF service = "is_error"
    THEN [parsed EXCEPT !.name = Some(original_line)]
  ELSE With(sorted_by_offset(result), LAMBDA entities :
    With(find_quantity(entities, 1), LAMBDA q :
      IF q.exc # "" THEN [parsed EXCEPT !.name = Some(original_line)]
      ELSE With(IF q.found = 0 THEN None ELSE Some(entities[q.found].text),
                LAMBDA quantity_entity_text :
        [parsed EXCEPT
           !.quantity = q.qty,
           !.unit = q.unit,
           !.name = Some(ner_name(name_parts(entities, quantity_entity_text),
                                  line_for_ner, quantity_entity_text,
                                  original_line))])))

\* lines 55-163
parse_single_ingredient_ner(line, service, result) ==
  With(strip(line), LAMBDA original_line :
    IF original_line = <<>> THEN default_parsed(original_line)
    ELSE With(re_search(PAREN, line), LAMBDA notes_match :
      With(IF notes_match.ok THEN strip(re_sub_empty(PAREN, line)) ELSE line,
           LAMBDA line_for_ner :
        With(IF notes_match.ok
               THEN [default_parsed(original_line) EXCEPT
                       !.notes = Some(strip(group(line, notes_match,
                                                  "g1")[1]))]
               ELSE default_parsed(original_line),
             LAMBDA parsed :
          IF line_for_ner = <<>>
            THEN [parsed EXCEPT !.name = Some(original_line)]
            ELSE ner_with_entities(parsed, line_for_ner, original_line,
                                   service, result)))))

\* the lines given to the parser
NerLines == {
  <<>>,
  <<"3", "5", "0", " ", "g", " ", "r", "i", "s", "o">>,
  <<" ", "r", "i", "s", "o", " ", " ", "(", "b", ")", " ", "1", "/", "2">>,
  <<"(", "b", ")">> }

\* entities the service may recognise: text, category, offset
NerEntities == {
  [text |-> <<"3", "5", "0", " ", "g">>, category |-> "Quantity", offset |-> 0],
  [text |-> <<"3", "5", "0">>, category |-> "Quantity", offset |-> 0],
  [text |-> <<"1", "/", "2">>, category |-> "Quantity", offset |-> 7],
  [text |-> <<"1", "/", "0">>, category |-> "Dimension", offset |-> 7],
  [text |-> <<"r", "i", "s", "o">>, category |-> "Product", offset |-> 6],
  [text |-> <<"g">>, category |-> "Other", offset |-> 4],
  [text |-> <<"b">>, category |-> "DateTime", offset |-> 1] }

NerResults == UNION {[1..n -> NerEntities] : n \in 0..MaxEntities}

\* how the call of recognize_entities ends
NerServices == {"ok", "is_error", "raises"}

InitNer ==
  /\ lexicon = COMMON_UNITS
  /\ page = idle_page
  /\ calls = [p \in Calls |-> idle_frame]
  /\ qty = idle_qty
  /\ block = idle_block
  /\ doc = idle_doc
  /\ qu = idle_qu
  /\ \E x \in NerLines : \E sv \in NerServices : \E es \in NerResults :
       /\ sv # "ok" => es = <<>>
       /\ ner = [idle_ner EXCEPT !.pc = "call", !.line = x, !.service = sv,
                                 !.entities = es]

ParseSingleIngredientNer ==
  /\ ner.pc = "call"
  /\ ner' = [ner EXCEPT
               !.pc = "done",
               !.parsed = parse_single_ingredient_ner(ner.line, ner.service,
                                                      ner.entities)]
  /\ UNCHANGED <<lexicon, calls, qty, block, doc, qu, page>>

NextNer == ParseSingleIngredientNer

SpecNer == InitNer /\ [][NextNer]_vars

(***************************************************************************)
(* src/pages/2_Add_Edit.py: the Add/Edit page.  A Streamlit page is a      *)
(* script run from top to bottom at every interaction of the user; what    *)
(* outlives a run is st.session_state and the containers of the database.  *)
(* The page record holds                                                    *)
(*   pending_similarity_check, confirmed_ingredient_map: the session keys  *)
(*     of that name (a dict is a set of key/id pairs);                      *)
(*   ingredients_container: the items of the ingredient master list, in    *)
(*     the order a query returns them;                                      *)
(*   manual_ingredients_df: the rows of the ingredient table as the data   *)
(*     editor shows them;                                                   *)
(*   run: what the last run of the script did: the rows it processed, the  *)
(*     ingredient ids of the recipe it passed to save_recipe (saved holds   *)
(*     one list per call), and the confirmed map as it was at its start;    *)
(*   chosen: the choices confirmed in the similarity prompt since the       *)
(*     session began (a history of the Confirm button, kept for the claims  *)
(*     that speak of the whole session).                                    *)
(***************************************************************************)
MaxRows == 2

\* F(v), with v computed once, before F is applied to it
Bind(v, F(_)) == CHOOSE y \in {F(r) : r \in {v}} : TRUE

\* the n-th (from 1) smallest number of a set
Nth(idx, n) == CHOOSE k \in idx : Cardinality({j \in idx : j < k}) = n - 1

\* the characters of s at the positions idx, in order
Pick(s, idx) == [n \in 1..Cardinality(idx) |-> s[Nth(idx, n)]]

\* \w for the characters of the model
WordChars ==
  {LowerLetters[k] : k \in 1..26} \cup {UpperLetters[k] : k \in 1..26}
    \cup Digit \cup {"_"}

\* models.py, sanitize_for_id: unidecode (the identity on ASCII), lower,
\* whitespace runs to "_", non-word characters out, "_" runs to one, "_"
\* stripped at both ends; a name that leaves nothing gets a fresh uuid
sanitize_for_id(name) ==
  Bind(lower(name), LAMBDA s1 :
  Bind(Pick([k \in 1..Len(s1) |->
               IF s1[k] \in Whitespace THEN "_" ELSE s1[k]],
            {k \in 1..Len(s1) :
               s1[k] \in Whitespace => (k = 1 \/ s1[k - 1] \notin Whitespace)}),
       LAMBDA s2 :
  Bind(Pick(s2, {k \in 1..Len(s2) : s2[k] \in WordChars}), LAMBDA s3 :
  Bind(Pick(s3, {k \in 1..Len(s3) :
                   s3[k] = "_" => (k = 1 \/ s3[k - 1] # "_")}),
       LAMBDA s4 :
  Bind({k \in 1..Len(s4) : s4[k] # "_"}, LAMBDA keep :
    IF keep = {} THEN <<"ingredient_", "uuid4">>
    ELSE SubSeq(s4, Nth(keep, 1), Nth(keep, Cardinality(keep))))))))

\* persistence.py, _normalize_name_for_search: lower case, single blanks
normalize_name_for_search(name) == join(split_whitespace(lower(name)))

Min2(a, b) == IF a <= b THEN a ELSE b

\* one row of the table of edit distances: the row of the character c,
\* from the row before it; acc is the part of the row built so far
RECURSIVE lev_row(_, _, _, _)
lev_row(c, b, prev, acc) ==
  IF Len(acc) = Len(b) + 1 THEN acc
  ELSE Bind(Len(acc), LAMBDA j :
         Bind(Append(acc,
                     Min2(Min2(prev[j + 1] + 1, acc[j] + 1),
                          prev[j] + (IF c = b[j] THEN 0 ELSE 1))),
              LAMBDA next : lev_row(c, b, prev, next)))

RECURSIVE lev_rows(_, _, _, _)
lev_rows(a, b, i, prev) ==
  IF i > Len(a) THEN prev
  ELSE Bind(lev_row(a[i], b, prev, <<prev[1] + 1>>),
            LAMBDA row : lev_rows(a, b, i + 1, row))

\* Levenshtein.distance: insertions, deletions and substitutions
levenshtein_distance(a, b) ==
  Bind([j \in 1..(Len(b) + 1) |-> j - 1],
       LAMBDA first : lev_rows(a, b, 1, first)[Len(b) + 1])

\* IngredientEntity(id, displayName); normalized_search_name is derived
\* from displayName by the model validator and by upsert_ingredient_entity
IngredientEntity(id, displayName) == [id |-> id, displayName |-> displayName]

\* dict.get and dict[key] = value on a set of key/id pairs
dict_has(d, key) == \E e \in d : e.key = key
dict_get(d, key) == (CHOOSE e \in d : e.key = key).id
dict_set(d, key, id) ==
  {e \in d : e.key # key} \cup {[key |-> key, id |-> id]}

\* persistence.py, get_ingredient_entity: the item of that id, None when
\* there is none or when the read fails
get_ingredient_entity(container, ingredient_id, reads_ok) ==
  IF reads_ok /\ \E k \in 1..Len(container) : container[k].id = ingredient_id
    THEN Some(container[CHOOSE k \in 1..Len(container) :
                          container[k].id = ingredient_id])
    ELSE None

threshold == 2
limit == 3

\* persistence.py, find_similar_ingredient_display_names: the items whose
\* normalized name begins with the first letter of the name looked for and
\* is within the threshold, nearest first (a stable sort), at most limit
find_similar_ingredient_display_names(container, display_name, reads_ok) ==
  Bind(normalize_name_for_search(display_name), LAMBDA normalized_check :
    IF normalized_check = <<>> \/ ~reads_ok THEN <<>>
    ELSE
      Bind([k \in 1..Len(container) |->
              Bind(normalize_name_for_search(container[k].displayName),
                   LAMBDA existing :
                IF existing # <<>> /\ existing[1] = normalized_check[1]
                  THEN levenshtein_distance(normalized_check, existing)
                  ELSE threshold + 1)],
           LAMBDA dist :
        Bind({k \in 1..Len(container) : dist[k] <= threshold}, LAMBDA near :
          Bind([n \in 1..Cardinality(near) |->
                  CHOOSE k \in near :
                    Cardinality({j \in near :
                                   \/ dist[j] < dist[k]
                                   \/ dist[j] = dist[k] /\ j < k}) = n - 1],
               LAMBDA order :
            [n \in 1..Min2(limit, Cardinality(near)) |->
               container[order[n]]]))))

\* persistence.py, upsert_ingredient_entity on the items of the container:
\* the item of that id replaced, or a new item at the end
upsert_item(container, entity) ==
  IF \E k \in 1..Len(container) : container[k].id = entity.id
    THEN [k \in 1..Len(container) |->
            IF container[k].id = entity.id THEN entity ELSE container[k]]
    ELSE Append(container, entity)

\* lines 298-299: the rows the loop does not skip: None (NaN), the empty
\* name and the quantity 0 are false
processed_row(row) ==
  /\ row.name # None /\ row.name[1] # <<>>
  /\ row.qty # None /\ row.qty[1] # 0

\* the locals of the loop over the rows (lines 289-293) at its start
loop_start(p) ==
  [processed_ingredient_ids |-> p.confirmed_ingredient_map,
   container |-> p.ingredients_container,
   ingredient_items_list |-> <<>>,
   all_ingredients_processed_successfully |-> TRUE,
   needs_similarity_check |-> None,
   upserts |-> 0, exc |-> "", stop |-> FALSE]

\* lines 344-346: IngredientItem(...) appended; quantity is declared ge=0
append_item(l, confirmed_ingredient_id, quantity) ==
  IF quantity < 0 THEN [l EXCEPT !.exc = "ValidationError", !.stop = TRUE]
  ELSE [l EXCEPT !.ingredient_items_list =
                   Append(@, [ingredient_id |-> confirmed_ingredient_id,
                              quantity |-> quantity])]

\* lines 298-349: one turn of the loop; faults names the calls of the
\* database that fail during this run
process_row_no_abort(l, row, faults) ==
  IF ~processed_row(row) THEN l
  ELSE
    Bind(row.name[1], LAMBDA name :
    Bind(lower(strip(name)), LAMBDA name_lower :
      IF dict_has(l.processed_ingredient_ids, name_lower)
        THEN append_item(l, dict_get(l.processed_ingredient_ids, name_lower),
                         row.qty[1])
      ELSE
        Bind(sanitize_for_id(name), LAMBDA ingredient_id_candidate :
        Bind(get_ingredient_entity(l.container, ingredient_id_candidate,
                                   faults.reads_ok),
             LAMBDA existing_entity :
          IF existing_entity # None
            THEN append_item(
                   [l EXCEPT !.processed_ingredient_ids =
                               dict_set(@, name_lower, existing_entity[1].id)],
                   existing_entity[1].id, row.qty[1])
          ELSE
            Bind(find_similar_ingredient_display_names(
                   l.container, strip(name), faults.reads_ok),
                 LAMBDA similar_entities :
              IF similar_entities # <<>>
                THEN [l EXCEPT
                        !.needs_similarity_check =
                          Some([new_name |-> strip(name),
                                candidate_id |-> ingredient_id_candidate,
                                similar_entities |-> similar_entities]),
                        !.all_ingredients_processed_successfully = FALSE,
                        !.stop = TRUE]
              ELSE IF l.upserts + 1 = faults.failing_upsert
                THEN [l EXCEPT !.upserts = @ + 1]
              ELSE
                append_item(
                  [l EXCEPT
                     !.upserts = @ + 1,
                     !.container =
                       upsert_item(@, IngredientEntity(ingredient_id_candidate,
                                                       strip(name))),
                     !.processed_ingredient_ids =
                       dict_set(@, name_lower, ingredient_id_candidate)],
                  ingredient_id_candidate, row.qty[1]))))))

process_row(l, row, faults) ==
  IF ~processed_row(row) THEN l
  ELSE
    Bind(row.name[1], LAMBDA name :
    Bind(lower(strip(name)), LAMBDA name_lower :
      IF dict_has(l.processed_ingredient_ids, name_lower)
        THEN append_item(l, dict_get(l.processed_ingredient_ids, name_lower),
                         row.qty[1])
      ELSE
        Bind(sanitize_for_id(name), LAMBDA ingredient_id_candidate :
        Bind(get_ingredient_entity(l.container, ingredient_id_candidate,
                                   faults.reads_ok),
             LAMBDA existing_entity :
          IF existing_entity # None
            THEN append_item(
                   [l EXCEPT !.processed_ingredient_ids =
                               dict_set(@, name_lower, existing_entity[1].id)],
                   existing_entity[1].id, row.qty[1])
          ELSE
            Bind(find_similar_ingredient_display_names(
                   l.container, strip(name), faults.reads_ok),
                 LAMBDA similar_entities :
              IF similar_entities # <<>>
                THEN [l EXCEPT
                        !.needs_similarity_check =
                          Some([new_name |-> strip(name),
                                candidate_id |-> ingredient_id_candidate,
                                similar_entities |-> similar_entities]),
                        !.all_ingredients_processed_successfully = FALSE,
                        !.stop = TRUE]
              ELSE IF l.upserts + 1 = faults.failing_upsert
                THEN [l EXCEPT
                        !.upserts = @ + 1,
                        !.all_ingredients_processed_successfully = FALSE,
                        !.stop = TRUE]
              ELSE
                append_item(
                  [l EXCEPT
                     !.upserts = @ + 1,
                     !.container =
                       upsert_item(@, IngredientEntity(ingredient_id_candidate,
                                                       strip(name))),
                     !.processed_ingredient_ids =
                       dict_set(@, name_lower, ingredient_id_candidate)],
                  ingredient_id_candidate, row.qty[1]))))))

\* lines 297-349: the loop, left at a break or at an exception
RECURSIVE process_rows(_, _, _, _)
process_rows(l, rows, i, faults) ==
  IF i > Len(rows) \/ l.stop THEN l
  ELSE Bind(process_row(l, rows[i], faults),
            LAMBDA after : process_rows(after, rows, i + 1, faults))

\* lines 268-276: title and instructions are there, a row with a name is
\* there, and no row with a name lacks its quantity
validation_ok(form) ==
  Bind(Pick(form.rows, {k \in 1..Len(form.rows) : form.rows[k].name # None}),
       LAMBDA ingredients_data :
    /\ form.title # <<>>
    /\ ingredients_data # <<>>
    /\ \A k \in 1..Len(ingredients_data) : ingredients_data[k].qty # None)

ingredient_ids(items) == [k \in 1..Len(items) |-> items[k].ingredient_id]

\* lines 255-423: the run of the script at a click on "Save Recipe"
submit(p, form, faults) ==
  Bind([op |-> "submit", form_disabled |-> p.pending_similarity_check # None,
        outcome |-> "none", rows |-> form.rows, saved |-> <<>>,
        known |-> p.confirmed_ingredient_map],
       LAMBDA this_run :
    IF this_run.form_disabled
      THEN [p EXCEPT !.run = [this_run EXCEPT !.outcome = "disabled"]]
    ELSE IF ~validation_ok(form)
      THEN [p EXCEPT !.run = [this_run EXCEPT !.outcome = "invalid"]]
    ELSE
      Bind(process_rows(loop_start(p),
                        Pick(form.rows, {k \in 1..Len(form.rows) :
                                           form.rows[k].name # None}),
                        1, faults),
           LAMBDA l :
        Bind([p EXCEPT
                !.confirmed_ingredient_map = l.processed_ingredient_ids,
                !.ingredients_container = l.container],
             LAMBDA q :
          IF l.exc # ""
            THEN [q EXCEPT !.run = [this_run EXCEPT !.outcome = l.exc]]
          ELSE IF l.needs_similarity_check # None
            THEN [q EXCEPT
                    !.pending_similarity_check = l.needs_similarity_check,
                    !.run = [this_run EXCEPT !.outcome = "pending"]]
          ELSE IF ~l.all_ingredients_processed_successfully
            THEN [q EXCEPT !.run = [this_run EXCEPT !.outcome = "aborted"]]
          ELSE IF faults.save_ok
            THEN [q EXCEPT
                    !.manual_ingredients_df = <<>>,
                    !.confirmed_ingredient_map = {},
                    !.run = [this_run EXCEPT
                               !.outcome = "saved",
                               !.saved = <<ingredient_ids(
                                             l.ingredient_items_list)>>]]
          ELSE [q EXCEPT
                  !.run = [this_run EXCEPT
                             !.outcome = "not saved",
                             !.saved = <<ingredient_ids(
                                           l.ingredient_items_list)>>]])))

\* lines 182-188: the ids the prompt offers: those of the similar
\* entities, then the candidate id ("create new")
options(pending_check) ==
  [k \in 1..Len(pending_check.similar_entities) |->
     pending_check.similar_entities[k].id]
    \o <<pending_check.candidate_id>>

\* the run at "Confirm Ingredient Choice" if it did not store the choice
confirm_forgets(p, choice, faults) ==
  Bind(p.pending_similarity_check[1], LAMBDA pending_check :
  Bind(options(pending_check)[choice], LAMBDA chosen_id :
  Bind(lower(strip(pending_check.new_name)), LAMBDA key :
    [p EXCEPT
       !.chosen = dict_set(@, key, chosen_id),
       !.ingredients_container =
         IF /\ chosen_id = pending_check.candidate_id
            /\ get_ingredient_entity(@, chosen_id, faults.reads_ok) = None
            /\ faults.failing_upsert # 1
           THEN upsert_item(@, IngredientEntity(chosen_id,
                                                strip(pending_check.new_name)))
           ELSE @,
       !.pending_similarity_check = None,
       !.run = [op |-> "confirm", form_disabled |-> TRUE,
                outcome |-> "confirmed", rows |-> <<>>, saved |-> <<>>,
                known |-> p.confirmed_ingredient_map]])))

\* lines 202-226: the run of the script at a click on "Confirm Ingredient
\* Choice"; the button is drawn only while a check is pending
confirm(p, choice, faults) ==
  Bind(p.pending_similarity_check[1], LAMBDA pending_check :
  Bind(options(pending_check)[choice], LAMBDA chosen_id :
  Bind(lower(strip(pending_check.new_name)), LAMBDA key :
    [p EXCEPT
       !.confirmed_ingredient_map = dict_set(@, key, chosen_id),
       !.chosen = dict_set(@, key, chosen_id),
       !.ingredients_container =
         IF /\ chosen_id = pending_check.candidate_id
            /\ get_ingredient_entity(@, chosen_id, faults.reads_ok) = None
            /\ faults.failing_upsert # 1
           THEN upsert_item(@, IngredientEntity(chosen_id,
                                                strip(pending_check.new_name)))
           ELSE @,
       !.pending_similarity_check = None,
       !.run = [op |-> "confirm", form_disabled |-> TRUE,
                outcome |-> "confirmed", rows |-> <<>>, saved |-> <<>>,
                known |-> p.confirmed_ingredient_map]])))

RISO == <<"R", "i", "s", "o">>
Riso_ == <<" ", "r", "i", "s", "o">>
RISI == <<"R", "i", "s", "i">>

\* the rows of the ingredient table: a row without a name, rows without a
\* quantity or with quantity 0, a negative quantity, and plain rows
Rows == {
  [name |-> None, qty |-> Some(1)],
  [name |-> Some(RISO), qty |-> None],
  [name |-> Some(RISO), qty |-> Some(0)],
  [name |-> Some(RISO), qty |-> Some(1)],
  [name |-> Some(Riso_), qty |-> Some(1)],
  [name |-> Some(RISI), qty |-> Some(1)],
  [name |-> Some(RISI), qty |-> Some(0 - 1)] }

Titles == {<<>>, <<"T">>}

\* the calls of the database that fail during a run: every read, the
\* n-th upsert (0: none), the save; one kind of failure in a run
Faults ==
  {[reads_ok |-> TRUE, failing_upsert |-> u, save_ok |-> TRUE] :
     u \in 0..MaxRows}
    \cup {[reads_ok |-> FALSE, failing_upsert |-> 0, save_ok |-> TRUE],
          [reads_ok |-> TRUE, failing_upsert |-> 0, save_ok |-> FALSE]}

\* a click on "Save Recipe": the title typed, and what fails in the run; a
\* missing title is tried with a database that works
Clicks ==
  {[title |-> <<"T">>, faults |-> f] : f \in Faults}
    \cup {[title |-> <<>>,
           faults |-> [reads_ok |-> TRUE, failing_upsert |-> 0,
                       save_ok |-> TRUE]]}

\* the master list when the session begins
Containers == {<<>>, <<IngredientEntity(<<"r", "i", "s", "o">>, RISO)>>}

InitPage ==
  /\ lexicon = COMMON_UNITS
  /\ calls = [p \in Calls |-> idle_frame]
  /\ qty = idle_qty
  /\ block = idle_block
  /\ doc = idle_doc
  /\ qu = idle_qu
  /\ ner = idle_ner
  /\ \E c \in Containers :
       page = [idle_page EXCEPT !.pc = "page", !.ingredients_container = c]

\* the user adds a row to the ingredient table or deletes its last row; the
\* editor is disabled while a check is pending (line 247)
EditTable ==
  /\ page.pc = "page"
  /\ page.pending_similarity_check = None
  /\ \/ /\ Len(page.manual_ingredients_df) < MaxRows
        /\ \E row \in Rows :
             page' = [page EXCEPT
                        !.manual_ingredients_df = Append(@, row),
                        !.run = [idle_page.run EXCEPT !.op = "edit"]]
     \/ /\ page.manual_ingredients_df # <<>>
        /\ page' = [page EXCEPT
                      !.manual_ingredients_df =
                        SubSeq(@, 1, Len(@) - 1),
                      !.run = [idle_page.run EXCEPT !.op = "edit"]]
  /\ UNCHANGED <<lexicon, calls, qty, block, doc, qu, ner>>

Submit ==
  /\ page.pc = "page"
  /\ \E click \in Clicks :
       page' = submit(page,
                      [title |-> click.title,
                       rows |-> page.manual_ingredients_df],
                      click.faults)
  /\ UNCHANGED <<lexicon, calls, qty, block, doc, qu, ner>>

Confirm ==
  /\ page.pc = "page"
  /\ page.pending_similarity_check # None
  /\ \E choice \in 1..Len(options(page.pending_similarity_check[1])) :
     \E faults \in Faults :
       page' = confirm(page, choice, faults)
  /\ UNCHANGED <<lexicon, calls, qty, block, doc, qu, ner>>

NextPage == EditTable \/ Submit \/ Confirm

SpecPage == InitPage /\ [][NextPage]_vars

\* the prompt stays on the page, and the form disabled, until the user
\* answers it: a session that goes on answers every prompt
SpecPageFair == SpecPage /\ WF_vars(Confirm)

(***************************************************************************)
(* The claims.                                                             *)
(***************************************************************************)

\* C1: for every input line that is not empty or whitespace-only, the record
\* parse_ingredient_string returns has a name that is present and non-empty
\* (also for a line that is only a parenthetical or begins with a comma)
C1_NameNonEmpty ==
  \A p \in Calls :
    /\ calls[p].pc = "done"
    /\ \E k \in 1..Len(calls[p].arg) : calls[p].arg[k] \notin Whitespace
    => /\ calls[p].parsed.name # None
       /\ calls[p].parsed.name[1] # <<>>

\* C2 as stated: original is exactly the input, leading and trailing
\* whitespace included
C2_OriginalIsInput ==
  \A p \in Calls :
    calls[p].pc = "done" => calls[p].parsed.original = calls[p].arg

\* C2 as amended: original is the input without its leading and trailing
\* whitespace: the input is whitespace, then original, then whitespace, and
\* original neither begins nor ends with whitespace
C2_OriginalIsTrimmedInput ==
  \A p \in Calls :
    calls[p].pc = "done" =>
      \E i \in 0..Len(calls[p].arg) :
        /\ i + Len(calls[p].parsed.original) <= Len(calls[p].arg)
        /\ SubSeq(calls[p].arg, i + 1, i + Len(calls[p].parsed.original))
             = calls[p].parsed.original
        /\ \A k \in 1..Len(calls[p].arg) :
             k <= i \/ k > i + Len(calls[p].parsed.original)
               => calls[p].arg[k] \in Whitespace
        /\ calls[p].parsed.original # <<>> =>
             /\ Head(calls[p].parsed.original) \notin Whitespace
             /\ calls[p].parsed.original[Len(calls[p].parsed.original)]
                  \notin Whitespace

\* a line with blanks around it has gone through a pattern and returned
C2_Witness ==
  \E p \in Calls :
    /\ calls[p].pc = "done"
    /\ calls[p].via \notin {"", "Fallback"}
    /\ Len(calls[p].arg) > 0
    /\ Head(calls[p].arg) = " "
    /\ calls[p].parsed.original # calls[p].arg

\* C3: parse_ingredient_string never raises: every call ends by returning
C3_NeverRaises ==
  \A p \in Calls : calls[p].pc # "raised"

\* C4: parsing is pure: whatever the interleaving of the invocations, each
\* ends as it would alone (same record, same outcome), and the unit lexicon
\* is never changed
C4_InterleavingIsInvisible ==
  /\ lexicon = COMMON_UNITS
  /\ \A p \in Calls :
       calls[p].pc \in {"done", "raised"} =>
         /\ calls[p].pc = parse_ingredient_string(calls[p].arg).pc
         /\ calls[p].parsed = parse_ingredient_string(calls[p].arg).parsed

\* one invocation has returned from a pattern while another, on another
\* line, is suspended inside its loop
C4_Witness ==
  \E p \in Calls, q \in Calls :
    /\ calls[p].pc = "done"
    /\ calls[p].via \notin {"", "Fallback"}
    /\ calls[q].pc = "loop"
    /\ calls[q].idx > 1
    /\ calls[q].arg # calls[p].arg

(* What one pattern does on the working line of an invocation.             *)

\* the entry of the list patterns that has this name
PatternNamed(n) ==
  patterns[CHOOSE k \in 1..Len(patterns) : patterns[k].name = n]

\* the frame of invocation p as lines 46-66 leave it: working line, default
\* record, parenthetical
Entered(p) == enter(new_frame(calls[p].arg))

\* the match of the pattern named n on the working line of invocation p
MatchOf(n, p) ==
  re_match(PatternNamed(n).regex, Entered(p).line, PatternNamed(n).ic)

\* what the pattern named n answers there: "nomatch", "none" (rejected by
\* its guard), "return" with the record, or "raise"
Outcome(n, p) ==
  IF ~MatchOf(n, p).ok
    THEN [ret |-> "nomatch", parsed |-> Entered(p).parsed]
    ELSE run_processor(PatternNamed(n), Entered(p).parsed, Entered(p).line,
                       MatchOf(n, p), COMMON_UNITS, Entered(p).notes_match)

\* the text a group of the pattern named n matched there, None if none
TokenOf(g, n, p) ==
  IF n \in {"", "Fallback"} \/ ~MatchOf(n, p).ok THEN None
  ELSE group(Entered(p).line, MatchOf(n, p), g)

\* the order of the patterns as the claim gives it, by the names of the
\* source: Quantity-Unit-Name, Unit-Quantity-Name, Quantity-Name,
\* Name-Quantity-[Unit]-[Notes], Name-Quantity, Unit-Name
ClaimedOrder ==
  <<"Number Unit Name",
    "Unit Quantity Name",
    "Number Name (No recognized unit found after number)",
    "Name[,] Number [Unit] [Notes]",
    "Name Number (No Unit after number)",
    "Unit Name (No Number)">>

\* C5: the patterns are consulted in the claimed order; every pattern
\* consulted before the producing one did not match or was rejected by its
\* guard; the record returned is the one the producing pattern builds;
\* nothing is consulted after it; the fallback runs only after all six
C5_FirstAcceptedPatternWins ==
  \A p \in Calls :
    calls[p].pc \in {"loop", "fallback", "done"} =>
      /\ \E n \in 0..Len(ClaimedOrder) :
           calls[p].tried = SubSeq(ClaimedOrder, 1, n)
      /\ \A k \in 1..Len(calls[p].tried) :
           calls[p].tried[k] # calls[p].via =>
             Outcome(calls[p].tried[k], p).ret \in {"nomatch", "none"}
      /\ calls[p].pc = "fallback" \/ calls[p].via = "Fallback" =>
           calls[p].tried = ClaimedOrder
      /\ calls[p].via \notin {"", "Fallback"} =>
           /\ calls[p].pc = "done"
           /\ calls[p].tried[Len(calls[p].tried)] = calls[p].via
           /\ Outcome(calls[p].via, p).ret = "return"
           /\ calls[p].parsed = Outcome(calls[p].via, p).parsed
      /\ calls[p].via = "Fallback" =>
           /\ calls[p].pc = "done"
           /\ calls[p].parsed = fallback(Entered(p)).parsed

\* the last pattern produced the record after an earlier one had matched
\* and been rejected by its guard
C5_Witness ==
  \E p \in Calls :
    /\ calls[p].pc = "done"
    /\ calls[p].via = ClaimedOrder[6]
    /\ Len(calls[p].tried) = 6
    /\ \E k \in 1..5 : Outcome(ClaimedOrder[k], p).ret = "none"

(* Numeric literals and their values.                                      *)

\* the optional value v is the rational n / d
IsValue(v, n, d) == v # None /\ v[1][1] * d = n * v[1][2]

\* a fraction with denominator zero: "/" followed by zeros only
ZeroDenominator(q) ==
  \E i \in 1..(Len(q) - 1) :
    q[i] = "/" /\ \A k \in (i + 1)..Len(q) : q[k] = "0"

\* a fragment with a character no numeric literal has
NonNumeric(q) ==
  \E k \in 1..Len(q) : q[k] \notin Digit \cup Whitespace \cup {".", ",", "/"}

\* C6: _parse_quantity gives n for the integer n, i.f / 10^k for a decimal
\* with k decimals written with a dot or a comma, a / b for "a/b" and
\* w + a / b for "w a/b" (b nonzero)
C6_LiteralValues ==
  qty.pc \in {"done", "raised"} =>
    /\ AllDigits(qty.arg) =>
         qty.pc = "done" /\ IsValue(qty.val, IntVal(qty.arg), 1)
    /\ \A i \in 1..(Len(qty.arg) - 1) :
         /\ qty.arg[i] \in {".", ","}
         /\ i = 1 \/ AllDigits(SubSeq(qty.arg, 1, i - 1))
         /\ AllDigits(SubSeq(qty.arg, i + 1, Len(qty.arg)))
         => /\ qty.pc = "done"
            /\ IsValue(qty.val,
                       IntVal(SubSeq(qty.arg, 1, i - 1)) * Pow10(Len(qty.arg) - i)
                         + IntVal(SubSeq(qty.arg, i + 1, Len(qty.arg))),
                       Pow10(Len(qty.arg) - i))
    /\ \A i \in 2..(Len(qty.arg) - 1) :
         /\ qty.arg[i] = "/"
         /\ AllDigits(SubSeq(qty.arg, 1, i - 1))
         /\ AllDigits(SubSeq(qty.arg, i + 1, Len(qty.arg)))
         /\ ~ZeroDenominator(qty.arg)
         => /\ qty.pc = "done"
            /\ IsValue(qty.val, IntVal(SubSeq(qty.arg, 1, i - 1)),
                       IntVal(SubSeq(qty.arg, i + 1, Len(qty.arg))))
    /\ \A j \in 2..(Len(qty.arg) - 3) : \A i \in (j + 2)..(Len(qty.arg) - 1) :
         /\ qty.arg[j] = " "
         /\ qty.arg[i] = "/"
         /\ AllDigits(SubSeq(qty.arg, 1, j - 1))
         /\ AllDigits(SubSeq(qty.arg, j + 1, i - 1))
         /\ AllDigits(SubSeq(qty.arg, i + 1, Len(qty.arg)))
         /\ ~ZeroDenominator(qty.arg)
         => /\ qty.pc = "done"
            /\ IsValue(qty.val,
                       IntVal(SubSeq(qty.arg, 1, j - 1))
                           * IntVal(SubSeq(qty.arg, i + 1, Len(qty.arg)))
                         + IntVal(SubSeq(qty.arg, j + 1, i - 1)),
                       IntVal(SubSeq(qty.arg, i + 1, Len(qty.arg))))

C8_SpacedFractionSameValue ==
  qty.pc \in {"done", "raised"} =>
    \A i \in 2..(Len(qty.arg) - 1) :
      /\ qty.arg[i] = "/"
      /\ qty.arg[i - 1] \in Whitespace \/ qty.arg[i + 1] \in Whitespace
      /\ AllDigits(strip(SubSeq(qty.arg, 1, i - 1)))
      /\ AllDigits(strip(SubSeq(qty.arg, i + 1, Len(qty.arg))))
      /\ IntVal(strip(SubSeq(qty.arg, i + 1, Len(qty.arg)))) # 0
      /\ Head(qty.arg) \in Digit
      /\ qty.arg[Len(qty.arg)] \in Digit
      => /\ qty.pc = "done"
         /\ IsValue(qty.val, IntVal(strip(SubSeq(qty.arg, 1, i - 1))),
                    IntVal(strip(SubSeq(qty.arg, i + 1, Len(qty.arg)))))

\* the three spellings of the "to taste" marker
ToTaste ==
  {<<"q", ".", "b", ".">>, <<"q", ".", "b">>, <<"q", "b">>}

\* C9: when the unit token of the producing pattern is "q.b.", "q.b" or
\* "qb" (in any case), the unit of the record is "qb"
C9_ToTasteIsQb ==
  \A p \in Calls :
    /\ calls[p].pc = "done"
    /\ TokenOf("unit", calls[p].via, p) # None
    /\ lower(strip(TokenOf("unit", calls[p].via, p)[1])) \in ToTaste
    => calls[p].parsed.unit = Some(<<"q", "b">>)

\* C10: the unit of a returned record is absent, or lowercase, without a
\* trailing dot and an entry of COMMON_UNITS; it is absent when the
\* producing pattern matched no unit token
C10_UnitIsNormalizedToken ==
  \A p \in Calls :
    calls[p].pc = "done" =>
      /\ calls[p].parsed.unit # None =>
           /\ calls[p].parsed.unit[1] # <<>>
           /\ calls[p].parsed.unit[1] = lower(calls[p].parsed.unit[1])
           /\ calls[p].parsed.unit[1][Len(calls[p].parsed.unit[1])] # "."
           /\ InList(calls[p].parsed.unit[1], COMMON_UNITS)
      /\ TokenOf("unit", calls[p].via, p) = None =>
           calls[p].parsed.unit = None

\* the two patterns that put the text before the number into name
NameFirst ==
  {"Name[,] Number [Unit] [Notes]", "Name Number (No Unit after number)"}

\* the text equals an entry of the unit lexicon when case is ignored
EqualsUnitIgnoringCase(text) ==
  \E k \in 1..Len(COMMON_UNITS) : lower(text) = lower(COMMON_UNITS[k])

IsNumericLiteral(text) ==
  re_match(<<Bol>> \o NUMBER_PATTERN \o <<Eol>>, text, FALSE).ok

\* the fields of a record other than original
Fields(parsed) ==
  <<parsed.quantity, parsed.unit, parsed.name, parsed.notes>>

\* C12: a line "N U R" (numeric literal, lexicon unit, name text, single
\* blanks between, no parenthetical) is returned with the same quantity,
\* unit, name and notes as the line "U N R", also when R begins with digits
\* or a fraction
C12_NumberUnitOrderInsensitive ==
  \A p \in Calls :
    calls[p].pc = "done" =>
      \A i \in 2..Len(calls[p].arg) : \A j \in (i + 2)..(Len(calls[p].arg) - 1) :
        /\ calls[p].arg[i] = " "
        /\ calls[p].arg[j] = " "
        /\ IsNumericLiteral(SubSeq(calls[p].arg, 1, i - 1))
        /\ \E k \in 1..Len(COMMON_UNITS) :
             COMMON_UNITS[k] = SubSeq(calls[p].arg, i + 1, j - 1)
        /\ calls[p].arg[j + 1] \notin Whitespace
        /\ calls[p].arg[Len(calls[p].arg)] \notin Whitespace
        /\ \A k \in 1..Len(calls[p].arg) : calls[p].arg[k] \notin {"(", ")"}
        => /\ parse_ingredient_string(
                SubSeq(calls[p].arg, i + 1, j - 1) \o <<" ">>
                  \o SubSeq(calls[p].arg, 1, i - 1) \o <<" ">>
                  \o SubSeq(calls[p].arg, j + 1, Len(calls[p].arg))).pc = "done"
           /\ Fields(parse_ingredient_string(
                SubSeq(calls[p].arg, i + 1, j - 1) \o <<" ">>
                  \o SubSeq(calls[p].arg, 1, i - 1) \o <<" ">>
                  \o SubSeq(calls[p].arg, j + 1, Len(calls[p].arg))).parsed)
                = Fields(calls[p].parsed)

\* the letters
Letters ==
  {LowerLetters[k] : k \in 1..26} \cup {UpperLetters[k] : k \in 1..26}

\* C13: a line "<name> <number> <unit>" whose name begins with a letter and
\* holds a numeric token of its own ("Farina 00 100 g") is returned with
\* that name whole, quantity = the number before the unit, unit = the unit
\* and no notes
C13_NumberInsideNameStays ==
  \A p \in Calls :
    calls[p].pc = "done" =>
      \A i \in 2..Len(calls[p].arg) : \A j \in (i + 2)..(Len(calls[p].arg) - 1) :
        /\ calls[p].arg[i] = " "
        /\ calls[p].arg[j] = " "
        /\ Head(calls[p].arg) \in Letters
        /\ \A k \in 1..(i - 1) :
             calls[p].arg[k] \in Letters \cup Digit \cup {" "}
        /\ \E k \in 2..(i - 1) :
             calls[p].arg[k - 1] = " " /\ calls[p].arg[k] \in Digit
        /\ calls[p].arg[i - 1] # " "
        /\ AllDigits(SubSeq(calls[p].arg, i + 1, j - 1))
        /\ \E k \in 1..Len(COMMON_UNITS) :
             COMMON_UNITS[k] = SubSeq(calls[p].arg, j + 1, Len(calls[p].arg))
        => /\ calls[p].parsed.name = Some(SubSeq(calls[p].arg, 1, i - 1))
           /\ IsValue(calls[p].parsed.quantity,
                      IntVal(SubSeq(calls[p].arg, i + 1, j - 1)), 1)
           /\ calls[p].parsed.unit
                = Some(SubSeq(calls[p].arg, j + 1, Len(calls[p].arg)))
           /\ calls[p].parsed.notes = None

\* C14: a line "<name>, <number> <unit>" whose name is letters and blanks,
\* no digit, and no unit token itself, is returned with name = the text
\* before the comma, quantity = the number, unit = the unit token and no
\* notes
C14_NameCommaNumberUnit ==
  \A p \in Calls :
    calls[p].pc = "done" =>
      \A i \in 2..Len(calls[p].arg) : \A j \in (i + 3)..(Len(calls[p].arg) - 1) :
        /\ calls[p].arg[i] = ","
        /\ calls[p].arg[i + 1] = " "
        /\ calls[p].arg[j] = " "
        /\ \A k \in 1..(i - 1) : calls[p].arg[k] \in Letters \cup {" "}
        /\ Head(calls[p].arg) # " "
        /\ calls[p].arg[i - 1] # " "
        /\ ~EqualsUnitIgnoringCase(SubSeq(calls[p].arg, 1, i - 1))
        /\ IsNumericLiteral(SubSeq(calls[p].arg, i + 2, j - 1))
        /\ parse_quantity(SubSeq(calls[p].arg, i + 2, j - 1)).val # None
        /\ \E k \in 1..Len(COMMON_UNITS) :
             COMMON_UNITS[k] = SubSeq(calls[p].arg, j + 1, Len(calls[p].arg))
        => /\ calls[p].parsed.name = Some(SubSeq(calls[p].arg, 1, i - 1))
           /\ calls[p].parsed.quantity
                = parse_quantity(SubSeq(calls[p].arg, i + 2, j - 1)).val
           /\ calls[p].parsed.unit
                = Some(SubSeq(calls[p].arg, j + 1, Len(calls[p].arg)))
           /\ calls[p].parsed.notes = None

\* C15: a line "<name> <marker>", the name made of letters and no unit
\* itself, the marker one of the spellings of "to taste", is returned with
\* unit "qb", no quantity, and the name without the marker
C15_TrailingToTasteIsUnit ==
  \A p \in Calls :
    calls[p].pc = "done" =>
      \A i \in 2..(Len(calls[p].arg) - 1) :
        /\ calls[p].arg[i] = " "
        /\ \A k \in 1..(i - 1) : calls[p].arg[k] \in Letters
        /\ ~EqualsUnitIgnoringCase(SubSeq(calls[p].arg, 1, i - 1))
        /\ lower(SubSeq(calls[p].arg, i + 1, Len(calls[p].arg))) \in ToTaste
        => /\ calls[p].parsed.name = Some(SubSeq(calls[p].arg, 1, i - 1))
           /\ calls[p].parsed.quantity = None
           /\ calls[p].parsed.unit = Some(<<"q", "b">>)

\* the connectives between a unit and a name, and the articles before a unit
Connectives == {<<"d", "i">>, <<"o", "f">>}
Articles == {<<"U", "n">>, <<"u", "n">>}

\* C16: a line without a number "[<article> ]<unit> <di|of> <name>" is
\* returned with unit = the unit token, name = the text after the
\* connective, and neither quantity nor notes
C16_UnitConnectiveName ==
  \A p \in Calls :
    /\ calls[p].pc = "done"
    /\ \A k \in 1..Len(calls[p].arg) : calls[p].arg[k] \in Letters \cup {" "}
    => \A h \in {0, 3} : \A i \in (h + 2)..Len(calls[p].arg) :
        /\ i + 4 <= Len(calls[p].arg)
        /\ h = 3 =>
             SubSeq(calls[p].arg, 1, 2) \in Articles /\ calls[p].arg[3] = " "
        /\ \E k \in 1..Len(COMMON_UNITS) :
             COMMON_UNITS[k] = SubSeq(calls[p].arg, h + 1, i - 1)
        /\ calls[p].arg[i] = " "
        /\ SubSeq(calls[p].arg, i + 1, i + 2) \in Connectives
        /\ calls[p].arg[i + 3] = " "
        /\ calls[p].arg[i + 4] # " "
        /\ calls[p].arg[Len(calls[p].arg)] # " "
        => /\ calls[p].parsed.unit = Some(SubSeq(calls[p].arg, h + 1, i - 1))
           /\ calls[p].parsed.name
                = Some(SubSeq(calls[p].arg, i + 4, Len(calls[p].arg)))
           /\ calls[p].parsed.quantity = None
           /\ calls[p].parsed.notes = None

\* the line of invocation p with its parentheticals cut out
WithoutParenthetical(p) == re_sub_empty(PAREN, calls[p].arg)

\* the text begins with the prefix
BeginsWith(text, prefix) ==
  Len(prefix) <= Len(text) /\ SubSeq(text, 1, Len(prefix)) = prefix

\* C17: when the line holds a parenthetical, the notes of the record begin
\* with its inner text, and quantity, unit and name are those of the record
\* returned for the line without the parenthetical
C17_ParentheticalBecomesNotes ==
  \A p \in Calls :
    calls[p].pc = "done" /\ re_search(PAREN, calls[p].arg).ok =>
      /\ calls[p].parsed.notes # None
      /\ BeginsWith(calls[p].parsed.notes[1],
                    strip(group(calls[p].arg, re_search(PAREN, calls[p].arg),
                                "g1")[1]))
      /\ parse_ingredient_string(WithoutParenthetical(p)).pc = "done"
      /\ calls[p].parsed.quantity
           = parse_ingredient_string(WithoutParenthetical(p)).parsed.quantity
      /\ calls[p].parsed.unit
           = parse_ingredient_string(WithoutParenthetical(p)).parsed.unit
      /\ calls[p].parsed.name
           = parse_ingredient_string(WithoutParenthetical(p)).parsed.name

\* the position is that of a comma or hyphen with no digit next to it
SplitPoint(text, k) ==
  /\ text[k] \in {",", "-"}
  /\ (k > 1 => text[k - 1] \notin Digit)
  /\ (k < Len(text) => text[k + 1] \notin Digit)

\* C18: a line without parentheticals that holds a comma or hyphen not
\* adjacent to digits is returned with the text after the first such mark as
\* notes, and with the quantity, unit and name of the text before it
C18_SplitOnCommaOrHyphen ==
  \A p \in Calls : \A k \in 1..Len(calls[p].arg) :
    /\ calls[p].pc = "done"
    /\ ~re_search(PAREN, calls[p].arg).ok
    /\ SplitPoint(calls[p].arg, k)
    /\ \A j \in 1..(k - 1) : ~SplitPoint(calls[p].arg, j)
    /\ strip(SubSeq(calls[p].arg, 1, k - 1)) # <<>>
    /\ strip(SubSeq(calls[p].arg, k + 1, Len(calls[p].arg))) # <<>>
    => /\ calls[p].parsed.notes
            = Some(strip(SubSeq(calls[p].arg, k + 1, Len(calls[p].arg))))
       /\ parse_ingredient_string(SubSeq(calls[p].arg, 1, k - 1)).pc = "done"
       /\ calls[p].parsed.quantity
            = parse_ingredient_string(SubSeq(calls[p].arg, 1, k - 1))
                .parsed.quantity
       /\ calls[p].parsed.unit
            = parse_ingredient_string(SubSeq(calls[p].arg, 1, k - 1))
                .parsed.unit
       /\ calls[p].parsed.name
            = parse_ingredient_string(SubSeq(calls[p].arg, 1, k - 1))
                .parsed.name

\* the inner text of the first parenthetical of invocation p, trimmed
Parenthetical(p) == strip(Entered(p).notes_match[1])

\* the trailing text the pattern Name[,] Number [Unit] [Notes] captured
TrailingText(p) ==
  strip(TokenOf("notes", "Name[,] Number [Unit] [Notes]", p)[1])

\* C19: the notes a parenthetical gave are never overwritten: the notes of
\* the record begin with them, and when Name[,] Number [Unit] [Notes] is
\* accepted with a trailing text, they are the parenthetical's text, then
\* ", ", then the trailing text
C19_NotesAccumulate ==
  \A p \in Calls :
    calls[p].pc = "done" /\ Entered(p).notes_match # None =>
      /\ calls[p].parsed.notes # None
      /\ BeginsWith(calls[p].parsed.notes[1], Parenthetical(p))
      /\ calls[p].via = "Name[,] Number [Unit] [Notes]" =>
           calls[p].parsed.notes
             = IF TrailingText(p) = <<>> THEN Some(Parenthetical(p))
               ELSE Some(Parenthetical(p) \o <<",", " ">> \o TrailingText(p))
      /\ calls[p].via # "Name[,] Number [Unit] [Notes]" =>
           calls[p].parsed.notes = Some(Parenthetical(p))

\* a parenthetical and a trailing text were both found
C19_Witness ==
  \E p \in Calls :
    /\ calls[p].pc = "done"
    /\ Entered(p).notes_match # None
    /\ Parenthetical(p) # <<>>
    /\ calls[p].via = "Name[,] Number [Unit] [Notes]"
    /\ TrailingText(p) # <<>>
    /\ calls[p].parsed.notes
         = Some(Parenthetical(p) \o <<",", " ">> \o TrailingText(p))

FirstWord(text) == split(text, " ")[1]

\* C21: a record made by Number Name (quantity present, unit absent) has a
\* name whose first word is not a unit of the lexicon, so a line of a number
\* and a unit is not returned with the unit as name
C21_NumberNameHasNoUnitName ==
  \A p \in Calls :
    /\ calls[p].pc = "done"
    /\ calls[p].via = "Number Name (No recognized unit found after number)"
    /\ calls[p].parsed.quantity # None
    /\ calls[p].parsed.unit = None
    => ~EqualsUnitIgnoringCase(FirstWord(calls[p].parsed.name[1]))

\* C22: an empty or whitespace-only line is returned as the default record
\* (quantity, unit, name and notes absent, original the empty text) and no
\* pattern is tried on it
C22_EmptyLineReturnsDefault ==
  \A p \in Calls :
    calls[p].pc \in {"loop", "fallback", "raised", "done"}
      /\ strip(calls[p].arg) = <<>> =>
        /\ calls[p].pc = "done"
        /\ calls[p].parsed = default_parsed(<<>>)
        /\ calls[p].tried = <<>>
        /\ calls[p].via = ""

\* a line of blanks only was returned
C22_Witness ==
  \E p \in Calls :
    /\ calls[p].pc = "done"
    /\ calls[p].arg # <<>>
    /\ strip(calls[p].arg) = <<>>
    /\ calls[p].parsed = default_parsed(<<>>)
    /\ calls[p].tried = <<>>

\* the lines of the block given to the import page
LinesOfBlock ==
  IF block.kind = "list" THEN block.lines ELSE split(block.text, "\n")

IsBlank(line) == strip(line) = <<>>

\* the lines of the block that are not blank, in their order
NonBlankLines == SelectSeq(LinesOfBlock, LAMBDA line : ~IsBlank(line))

\* C23 as stated: the stored list has one record per line of the block, the
\* i-th record being the parse of the i-th line
C23_OneRecordPerLine ==
  block.pc = "done" =>
    /\ block.stored # None
    /\ Len(block.stored[1]) = Len(LinesOfBlock)
    /\ \A k \in 1..Len(LinesOfBlock) :
         block.stored[1][k] = parse_ingredient_string(LinesOfBlock[k]).parsed

\* C23 as amended: the stored list has one record per non-blank line of the
\* block, in input order, the k-th record being the parse of the k-th
\* non-blank line alone; a line whose parse raises ends the call with
\* nothing stored
C23_OneRecordPerNonBlankLine ==
  /\ block.pc = "done" =>
       /\ block.stored # None
       /\ Len(block.stored[1]) = Len(NonBlankLines)
       /\ \A k \in 1..Len(NonBlankLines) :
            /\ parse_ingredient_string(NonBlankLines[k]).pc = "done"
            /\ block.stored[1][k]
                 = parse_ingredient_string(NonBlankLines[k]).parsed
  /\ block.pc = "raised" =>
       /\ block.stored = None
       /\ \E k \in 1..Len(NonBlankLines) :
            parse_ingredient_string(NonBlankLines[k]).pc = "raised"
  /\ block.pc = "loop" =>
       \A k \in 1..Len(block.parsed_ingredients_list) :
         block.parsed_ingredients_list[k]
           = parse_ingredient_string(NonBlankLines[k]).parsed

\* a block with a blank line between two different lines was stored
C23_Witness ==
  /\ block.pc = "done"
  /\ Len(LinesOfBlock) = 3
  /\ IsBlank(LinesOfBlock[2])
  /\ Len(block.stored[1]) = 2
  /\ block.stored[1][1] # block.stored[1][2]
  /\ block.stored[1][1] = parse_ingredient_string(LinesOfBlock[1]).parsed
  /\ block.stored[1][2] = parse_ingredient_string(LinesOfBlock[3]).parsed

\* C24: for a model id that starts with 'cucina_facile', a block made of
\* ingredients, each a capitalised name alone or a name, a comma and a
\* quantity clause, with or without the heading 'ingredienti', is returned
\* as the list of its ingredients, none merged with the one after it; the
\* sample block is returned as the expected list of 14 items
C24_OneStringPerIngredient ==
  doc.pc \in {"done", "raised"}
    /\ startswith(doc.selected_model_id, CUCINA_FACILE) =>
      /\ doc.pc = "done"
      /\ doc.ingredients_text = SampleText => doc.val = SampleItems
      /\ \A items \in DocItemLists : \A h \in BOOLEAN :
           doc.ingredients_text = DocText(items, h) => doc.val = items

\* the quantities the claim speaks of, with the value it gives for each: an
\* integer as it is, a decimal with a dot, a fraction as its decimal value
ClaimedValue ==
  [n \in {<<"1">>, <<"3", "5", "0">>, <<"1", ".", "5">>, <<"1", ",", "5">>,
          <<"0", ",", "2", "5">>, <<"1", "/", "2">>, <<"3", "/", "4">>,
          <<"1", "0", "/", "4">>, <<"4", "/", "2">>} |->
     CASE n = <<"1", ",", "5">> -> <<"1", ".", "5">>
       [] n = <<"0", ",", "2", "5">> -> <<"0", ".", "2", "5">>
       [] n = <<"1", "/", "2">> -> <<"0", ".", "5">>
       [] n = <<"3", "/", "4">> -> <<"0", ".", "7", "5">>
       [] n = <<"1", "0", "/", "4">> -> <<"2", ".", "5">>
       [] n = <<"4", "/", "2">> -> <<"2", ".", "0">>
       [] OTHER -> n]

\* C25: parse_quantity_and_unit never raises; for the text of a quantity, a
\* blank and a unit it returns the quantity's value as a string and the unit
\* text; for the bare fraction 1/2 it returns value "0.5" and no unit
C25_ValueAndUnit ==
  qu.pc \in {"done", "raised"} =>
    /\ qu.pc = "done"
    /\ qu.quantity_text = <<"1", "/", "2">> =>
         qu.val = Some([value |-> <<"0", ".", "5">>, unit |-> None])
    /\ \A n \in DOMAIN ClaimedValue : \A u \in QuUnits \ {<<>>} :
         qu.quantity_text = n \o <<" ">> \o u =>
           qu.val = Some([value |-> ClaimedValue[n], unit |-> Some(u)])

\* the entities of the call of parse_single_ingredient_ner, by position
NerSorted == sorted_by_offset(ner.entities)

\* the helper extracts a value, or a value and a unit, from the entity
Parsable(e) ==
  /\ e.category \in QuantityCategories
  /\ parse_quantity_and_unit(e.text).exc = ""
  /\ parse_quantity_and_unit(e.text).val # None

\* the service answered with entities for a line that has text besides its
\* parenthetical
NerAnswered ==
  /\ ner.pc = "done"
  /\ ner.service = "ok"
  /\ strip(re_sub_empty(PAREN, ner.line)) # <<>>

\* C26: the record has the value and the unit that parse_quantity_and_unit
\* extracts from the first parsable Quantity or Dimension entity; when no
\* entity is parsable, quantity and unit are absent and the name is built
\* from the recognised entities of the name categories, if there are any
C26_QuantityAndUnitFromEntity ==
  NerAnswered =>
    /\ \A k \in 1..Len(NerSorted) :
         Parsable(NerSorted[k])
           /\ (\A j \in 1..(k - 1) : ~Parsable(NerSorted[j])) =>
             /\ ner.parsed.quantity
                  = Some(parse_quantity_and_unit(NerSorted[k].text)
                           .val[1].value)
             /\ ner.parsed.unit
                  = parse_quantity_and_unit(NerSorted[k].text).val[1].unit
    /\ (\A k \in 1..Len(NerSorted) : ~Parsable(NerSorted[k])) =>
         /\ ner.parsed.quantity = None
         /\ ner.parsed.unit = None
         /\ name_parts(NerSorted, None) # <<>> =>
              ner.parsed.name
                = Some(join(split_whitespace(join(name_parts(NerSorted,
                                                             None)))))

\* the number of rows of a run that the loop does not skip
ProcessedRows(rows) ==
  Cardinality({k \in 1..Len(rows) : processed_row(rows[k])})

\* a step is a click on "Save Recipe"
SubmitStep == page'.run.op = "submit" /\ page' # page

\* C27: on the Add/Edit page save_recipe is called only in a submission
\* during which no similarity check is pending, before or after the loop,
\* and in which every processed row got an ingredient id; a click while
\* pending_similarity_check is set processes nothing (nothing but the record
\* of the run changes), and a submission that raises a similarity check or
\* fails to create a master entry calls save_recipe not at all.
C27_SaveOnlyWhenResolved ==
  [][SubmitStep =>
       /\ page.pending_similarity_check # None =>
            /\ page' = [page EXCEPT !.run = page'.run]
            /\ page'.run.saved = <<>>
       /\ page'.run.saved # <<>> =>
            /\ page.pending_similarity_check = None
            /\ page'.pending_similarity_check = None
            /\ Len(page'.run.saved) = 1
            /\ Len(page'.run.saved[1]) = ProcessedRows(page'.run.rows)
            /\ \A k \in 1..Len(page'.run.saved[1]) :
                 page'.run.saved[1][k] # <<>>
       /\ (\/ page'.pending_similarity_check # None
           \/ page'.run.outcome = "aborted") => page'.run.saved = <<>>]_vars

\* a recipe of two ingredients saved after a similarity prompt was answered
C27_Witness ==
  /\ page.run.op = "submit"
  /\ page.run.outcome = "saved"
  /\ Len(page.run.saved[1]) = 2
  /\ page.chosen # {}

\* the ids of the master list
MasterIds ==
  {page.ingredients_container[k].id :
     k \in 1..Len(page.ingredients_container)}

\* C28: every ingredient_id of a recipe that the page passes to
\* save_recipe is the id of an IngredientEntity of the master list at that
\* moment, whatever prompts, confirmations and failed upserts came before.
C28_SavedIdsExist ==
  \A r \in 1..Len(page.run.saved) :
    \A k \in 1..Len(page.run.saved[r]) :
      page.run.saved[r][k] \in MasterIds

\* the key of a name in the confirmed map
NameKey(name) == lower(strip(name))

\* the rows of a run that the loop does not skip, in order
ProcessedOf(rows) ==
  Pick(rows, {k \in 1..Len(rows) : processed_row(rows[k])})

\* a step is a click on "Confirm Ingredient Choice"
ConfirmStep == page'.run.op = "confirm" /\ page' # page

\* in the step, a submission that is processed gives every row of the name
\* of the entry e the id of e, and raises no similarity check for that
\* name
ResolvedTo(e) ==
  /\ page'.pending_similarity_check # None =>
       NameKey(page'.pending_similarity_check[1].new_name) # e.key
  /\ \A r \in 1..Len(page'.run.saved) :
       \A n \in 1..Len(page'.run.saved[r]) :
         NameKey(ProcessedOf(page'.run.rows)[n].name[1]) = e.key =>
           page'.run.saved[r][n] = e.id

\* a step is a click on "Save Recipe" that passes the validation
ValidSubmitStep ==
  SubmitStep /\ page'.run.outcome \notin {"disabled", "invalid"}

\* a submission that passed the validation and left no check pending
SubmittedWithoutCheck ==
  /\ page.run.op = "submit"
  /\ page.run.outcome \notin {"disabled", "invalid"}
  /\ page.pending_similarity_check = None

RejectedAttempt(p, k) ==
  /\ k \in 1..Len(calls[p].tried)
  /\ calls[p].tried[k] \in NameFirst
  /\ Outcome(calls[p].tried[k], p).ret = "none"

\* C30: when Name-Quantity-[Unit]-[Notes] or Name-Quantity matches and is
\* rejected because the captured name is a unit, the attempt changes no
\* field of the record: while the loop goes on, the record is the one the
\* pre-processing left, and the record finally returned is what the later
\* pattern, or the fallback, makes of the pre-processed record.
C30_RejectedAttemptChangesNothing ==
  \A p \in Calls :
    (\E k \in 1..Len(calls[p].tried) : RejectedAttempt(p, k)) =>
      /\ calls[p].pc \in {"loop", "fallback"} =>
           calls[p].parsed = Entered(p).parsed
      /\ calls[p].pc = "done" /\ calls[p].via # "Fallback" =>
           /\ ~(\E k \in 1..Len(calls[p].tried) :
                  RejectedAttempt(p, k) /\ calls[p].tried[k] = calls[p].via)
           /\ calls[p].parsed = Outcome(calls[p].via, p).parsed
      /\ calls[p].pc = "done" /\ calls[p].via = "Fallback" =>
           /\ calls[p].parsed.name = Some(Entered(p).line)
           /\ calls[p].parsed.quantity = Entered(p).parsed.quantity
           /\ calls[p].parsed.unit = Entered(p).parsed.unit
           /\ calls[p].parsed.notes = Entered(p).parsed.notes

\* a line with a parenthetical whose name-first attempts were both
\* rejected, and which a later pattern returned
C30_Witness ==
  \E p \in Calls :
    /\ calls[p].pc = "done"
    /\ calls[p].via = "Unit Name (No Number)"
    /\ RejectedAttempt(p, 4)
    /\ RejectedAttempt(p, 5)
    /\ calls[p].parsed.notes # None

====
